---- MODULE Spec2Model ----
(***************************************************************************)
(* Model of the gap-aware compute batch (PPSDProcessor.calculate_ppsd and  *)
(* _process_single_merged_trace_to_npz) and of the snapshot merge pipeline *)
(* (_plot_merged_npz_files and _create_merged_ppsd_with_add_npz) of        *)
(* cp_ppsd/cp_psd.py; and, each under a specification of its own, of      *)
(* plot_ppsd, _group_npz_files_by_seed_id, _extract_seed_id_from_filename,*)
(* the per-file channel grouping, _generate_filename, the steps of        *)
(* _process_single_merged_trace_to_npz, the two plotting procedures, the  *)
(* artifact names of a batch and PPSDProcessor.run.                       *)
(*                                                                         *)
(* The spectral accumulator (ObsPy PPSD), the waveform reader and          *)
(* Stream.merge are external: the accumulator is a counter of processed    *)
(* windows, and every external call that can raise is a nondeterministic   *)
(* choice between its outcomes.                                            *)
(***************************************************************************)
EXTENDS Integers, Sequences, FiniteSets, TLC

\* ---------------------------------------------------------------- bounds
MaxTraces == 2

MaxArtifacts == 3

\* Numbers of waveform files the discovery can find.
FileCounts == {0, 1, 2}

\* Channel identities (network.station.location.channel) met in a file.
Channels == {"BJ.DAX.00.BHZ", "BJ.DAX.00.BHN"}

\* Processed-window counts one add() of one trace can yield.
WindowCounts == {0, 1}

\* args['merge_fill_value'] as configured: absent/None, the strings that
\* stand for None (in a letter case lower() changes), another string, and a
\* number.
NoFill == "<None>"
FillValues == {NoFill, "NULL", "latest", "0"}

\* args['merge_method']: 0 standard, 1 interpolation, -1 cleanup.
MergeMethods == {0, -1}

\* ---------------------------------------------------------------- state
VARIABLES
    pc,                \* position in calculate_ppsd
    config,            \* the resolved parameter map handed to calculate_ppsd
    raisedBy,          \* why calculate_ppsd raised, "none" while it has not
    inventory,         \* "unread" | "loaded"
    mseed_files,       \* sorted list of discovered files
    merge_fill_value,  \* resolved fill value
    fileIdx,           \* index in mseed_files of the file being processed
    channel_groups,    \* insertion-ordered dict: <<[id, traces]>>
    groupIdx,          \* index of the channel group being processed
    traces_to_process, \* list produced by the gap policy for the group
    traceIdx,          \* index in traces_to_process
    successful_files,
    failed_files,
    written,           \* artifacts saved by save_npz, in order
    filesRead,         \* files handed to read(), in order
    groupsEntered,     \* channel groups of the current file entered so far
    fed,               \* traces of the current group handed to accumulation
    mergeCalls,        \* Stream.merge invocations: <<[method, fill_value]>>
    mergeFailed,       \* the merge of the current group raised
    last               \* what happened to the last trace processed

cvars == <<pc, config, raisedBy, inventory, mseed_files, merge_fill_value,
           fileIdx, channel_groups, groupIdx, traces_to_process, traceIdx,
           successful_files, failed_files, written, filesRead,
           groupsEntered, fed, mergeCalls, mergeFailed, last>>

VARIABLES
    mpc,           \* position in _plot_merged_npz_files
    npz_files,     \* the artifacts found, in the order glob returned them
    disk,          \* per artifact path: corrupt or not, window count, identity
    seed_groups,   \* insertion-ordered dict: <<[seed_id, file_list]>>
    seedIdx,       \* index of the identity group being processed
    sorted_files,  \* sorted(npz_files) of the merge in progress
    foldIdx,       \* index in sorted_files of the next artifact to fold
    merged_ppsd,   \* window count of the base accumulator, -1 before it loads
    folds,         \* add_npz attempts of the merge in progress, in order
    mergeLog,      \* finished merges: one record per identity group
    rendered       \* _create_merged_plot_for_seed calls: <<[seed_id, kind, result]>>

mvars == <<mpc, npz_files, disk, seed_groups, seedIdx, sorted_files, foldIdx,
           merged_ppsd, folds, mergeLog, rendered>>

VARIABLES
    ppc,            \* position in plot_ppsd
    plot_config,    \* the plot configuration and what its paths point to
    plot_inventory, \* inventory local of plot_ppsd: "none" | "loaded"
    plot_npz_files, \* npz_files local of plot_ppsd, Unbound until assigned
    plot_raisedBy   \* why plot_ppsd raised, "none" while it has not

pvars == <<ppc, plot_config, plot_inventory, plot_npz_files, plot_raisedBy>>

VARIABLES
    gpc,            \* position in _group_npz_files_by_seed_id
    archive,        \* per artifact: its file name and what np.load finds in it
    group_files,    \* the npz_files argument: artifact paths, in order
    npzIdx,         \* index in group_files of the artifact being resolved
    id_groups,      \* the seed_groups local: <<[seed_id, file_list]>>
    resolved        \* per artifact handled: how its identity was obtained

gvars == <<gpc, archive, group_files, npzIdx, id_groups, resolved>>

VARIABLES
    filename,       \* argument of _extract_seed_id_from_filename
    extracted       \* its return value, Unbound before the call

evars == <<filename, extracted>>

VARIABLES
    file_stream,    \* the traces read from one waveform file, in file order
    streamIdx,      \* index in file_stream of the next trace to group
    trace_groups    \* channel_groups while the grouping loop runs

svars == <<file_stream, streamIdx, trace_groups>>

VARIABLES
    gen_args,       \* arguments of one _generate_filename call
    generated       \* its return value, Unbound before the call

nvars == <<gen_args, generated>>

VARIABLES
    tpc,              \* position in _process_single_merged_trace_to_npz
    trace_args,       \* args['special_handling'] as configured, and the trace
    special_handling, \* the special_handling local
    metadata,         \* the metadata local handed to PPSD(...)
    ppsd,             \* the PPSD(...) call made: its mode and metadata
    warned,           \* the unknown-mode warning was logged
    trace_raised      \* where the call raised, "none" while it has not

tvars == <<tpc, trace_args, special_handling, metadata, ppsd, warned,
           trace_raised>>

VARIABLES
    rpc,            \* position in PPSDProcessor.run
    configs,        \* self.configs: the loaded configurations, in order
    runIdx,         \* index in calc_configs / plot_configs of the one in hand
    run_log         \* calculate_ppsd and plot_ppsd calls made, in order

rvars == <<rpc, configs, runIdx, run_log>>

VARIABLES
    typeIdx         \* number of plot kinds of plot_types already attempted

kvars == <<typeIdx>>

\* The state of the procedures modelled on their own.
xvars == <<pvars, gvars, evars, svars, nvars, tvars, rvars, kvars>>

vars == <<cvars, mvars, xvars>>

\* ------------------------------------------------------------- helpers
\* All sequences over S of length lo..hi.
SeqsOf(S, lo, hi) == UNION {[1..n -> S] : n \in lo..hi}

Range(s) == {s[i] : i \in 1..Len(s)}

\* The orders glob.glob may return a set of paths in.
Orderings(S) == {s \in [1..Cardinality(S) -> S] : Range(s) = S}

\* Fault variant of Sorted: the list is taken in the order it was given.
Unsorted(s) == s

\* sorted(): insertion of each element into an ordered result.
RECURSIVE InsertSorted(_, _)
InsertSorted(x, s) ==
    IF s = <<>> THEN <<x>>
    ELSE IF x <= Head(s) THEN <<x>> \o s
    ELSE <<Head(s)>> \o InsertSorted(x, Tail(s))

RECURSIVE Sorted(_)
Sorted(s) == IF s = <<>> THEN <<>> ELSE InsertSorted(Head(s), Sorted(Tail(s)))

\* Fault variant of FindMseedFiles: the files in the order glob gave them.
FindMseedFilesAsGlobbed(globbed) == globbed

\* _find_mseed_files: sorted(glob.glob(...))
FindMseedFiles(globbed) == Sorted(globbed)

\* A trace read from a file: its channel identity and the positions in the
\* file of the segments it holds (one for a trace as read).
MakeStream(chans) ==
    [i \in 1..Len(chans) |-> [chan |-> chans[i], segs |-> <<i>>]]

\* Fault variant of AddToGroups: a trace joins the group before it only when
\* that group is the last one made, and opens a new group otherwise.
AddToGroupsContiguous(groups, tr) ==
    IF groups # <<>> /\ groups[Len(groups)].id = tr.chan
    THEN [groups EXCEPT ![Len(groups)].traces = Append(@, tr)]
    ELSE Append(groups, [id |-> tr.chan, traces |-> <<tr>>])

\* channel_groups[trace_id].append(trace), creating the list when absent.
AddToGroups(groups, tr) ==
    IF \E k \in 1..Len(groups) : groups[k].id = tr.chan
    THEN [k \in 1..Len(groups) |->
            IF groups[k].id = tr.chan
            THEN [groups[k] EXCEPT !.traces = Append(@, tr)]
            ELSE groups[k]]
    ELSE Append(groups, [id |-> tr.chan, traces |-> <<tr>>])

RECURSIVE GroupByChannel(_, _)
GroupByChannel(stream, groups) ==
    IF stream = <<>> THEN groups
    ELSE GroupByChannel(Tail(stream), AddToGroups(groups, Head(stream)))

RECURSIVE ConcatSegs(_)
ConcatSegs(traces) ==
    IF traces = <<>> THEN <<>>
    ELSE Head(traces).segs \o ConcatSegs(Tail(traces))

\* One trace holding every segment of the given traces (Trace.__add__).
Combine(traces) == [chan |-> traces[1].chan, segs |-> ConcatSegs(traces)]

\* str.lower() on the configured strings.
Lower(v) ==
    CASE v \in {"none", "None", "NONE"} -> "none"
      [] v \in {"null", "Null", "NULL"} -> "null"
      [] OTHER -> v

IsStr(v) == v \notin {NoFill, "0"}

\* Fault variant of NormaliseFill: the string is compared as written.
NormaliseFillExact(v) == IF v \in {"none", "null"} THEN NoFill ELSE v

\* isinstance(v, str) and v.lower() in ['none', 'null'] -> None
NormaliseFill(v) ==
    IF IsStr(v) /\ Lower(v) \in {"none", "null"} THEN NoFill ELSE v

\* Fault variant of ResolveFill: skip_on_gaps does not force the fill value.
ResolveFillUnforced(skip, v) == NormaliseFill(v)

\* if skip_on_gaps: merge_fill_value = None
ResolveFill(skip, v) == IF skip THEN NoFill ELSE NormaliseFill(v)

\* What Stream.merge leaves in the stream when it returns normally: one
\* trace per channel identity for methods 0 and 1; for method -1 only the
\* cleanup, which joins the segments that fit and leaves the others.
MergedStreams(traces, method) ==
    IF method = -1
    THEN {traces, <<Combine(traces)>>}
         \cup (IF Len(traces) > 2
               THEN {<<Combine(SubSeq(traces, 1, 2))>>
                       \o SubSeq(traces, 3, Len(traces))}
               ELSE {})
    ELSE {<<Combine(traces)>>}

\* What the in-place Stream.merge leaves in channel_stream when it raises:
\* the traces untouched (it raised before changing anything), the stream
\* after its cleanup pass joined segments that fit (it raised in the checks
\* that follow), or the emptied list (it raised while adding the popped
\* traces together).
StreamAfterFailedMerge(traces) ==
    {traces, <<>>}
    \cup (IF Len(traces) > 2
          THEN {<<Combine(SubSeq(traces, 1, 2))>>
                  \o SubSeq(traces, 3, Len(traces))}
          ELSE {})

\* Fault variant of IsEmptyResult: the window count is not looked at.
IsEmptyResultNever(n) == FALSE

\* n_segments == 0: return without saving.
IsEmptyResult(n) == n = 0

NoTrace == [chan |-> "", segs |-> <<>>]
NoResult == [trace |-> NoTrace, file |-> 0, constructed |-> FALSE,
             added |-> FALSE, n |-> 0, saved |-> FALSE, raised |-> FALSE]

\* _process_single_merged_trace_to_npz for one trace; outcome is what the
\* external calls do: PPSD(...) raises, ppsd.add raises, add returns and
\* times_processed then holds n windows, save_npz raises.
TraceOutcomes == {"construct_raises", "add_raises", "counted", "save_raises"}

ProcessSingle(tr, file, outcome, n) ==
    CASE outcome = "construct_raises" ->
            [trace |-> tr, file |-> file, constructed |-> FALSE,
             added |-> FALSE, n |-> 0, saved |-> FALSE, raised |-> TRUE]
      [] outcome = "add_raises" ->
            [trace |-> tr, file |-> file, constructed |-> TRUE,
             added |-> FALSE, n |-> 0, saved |-> FALSE, raised |-> TRUE]
      [] outcome = "counted" ->
            [trace |-> tr, file |-> file, constructed |-> TRUE,
             added |-> TRUE, n |-> n, saved |-> ~IsEmptyResult(n),
             raised |-> FALSE]
      [] outcome = "save_raises" ->
            [trace |-> tr, file |-> file, constructed |-> TRUE,
             added |-> TRUE, n |-> n, saved |-> FALSE,
             raised |-> ~IsEmptyResult(n)]

\* ------------------------------------------------ calculate_ppsd
Configs ==
    [mseed_pattern : BOOLEAN, inventory_path : BOOLEAN,
     skip_on_gaps : BOOLEAN, merge_fill_value : FillValues,
     merge_method : MergeMethods]

\* A local name before its assignment, and after it.
Unbound == [bound |-> FALSE, value |-> <<>>]
Bound(v) == [bound |-> TRUE, value |-> v]
NoMode == "<None>"

\* run has not been called.
RunIdle ==
    /\ rpc = "Idle"
    /\ configs = <<>>
    /\ runIdx = 0
    /\ run_log = <<>>

\* None of the procedures modelled on their own has run.
ExtraIdle ==
    /\ typeIdx = 0
    /\ ppc = "Idle"
    /\ plot_config = <<>>
    /\ plot_inventory = "none"
    /\ plot_npz_files = Unbound
    /\ plot_raisedBy = "none"
    /\ gpc = "Idle"
    /\ archive = <<>>
    /\ group_files = <<>>
    /\ npzIdx = 0
    /\ id_groups = <<>>
    /\ resolved = <<>>
    /\ filename = <<>>
    /\ extracted = Unbound
    /\ file_stream = <<>>
    /\ streamIdx = 0
    /\ trace_groups = <<>>
    /\ gen_args = <<>>
    /\ generated = Unbound
    /\ tpc = "Idle"
    /\ trace_args = <<>>
    /\ special_handling = NoMode
    /\ metadata = "none"
    /\ ppsd = <<>>
    /\ warned = FALSE
    /\ trace_raised = "none"

\* Nothing of the compute phase has run.
ComputeIdle ==
    /\ pc = "Idle"
    /\ config = [mseed_pattern |-> FALSE, inventory_path |-> FALSE,
                 skip_on_gaps |-> FALSE, merge_fill_value |-> NoFill,
                 merge_method |-> 0]
    /\ raisedBy = "none"
    /\ inventory = "unread"
    /\ mseed_files = <<>>
    /\ merge_fill_value = NoFill
    /\ fileIdx = 0
    /\ channel_groups = <<>>
    /\ groupIdx = 0
    /\ traces_to_process = <<>>
    /\ traceIdx = 0
    /\ successful_files = 0
    /\ failed_files = 0
    /\ written = <<>>
    /\ filesRead = <<>>
    /\ groupsEntered = 0
    /\ fed = <<>>
    /\ mergeCalls = <<>>
    /\ mergeFailed = FALSE
    /\ last = NoResult

\* Nothing of the plot phase has run.
MergeIdle ==
    /\ mpc = "Idle"
    /\ npz_files = <<>>
    /\ disk = <<>>
    /\ seed_groups = <<>>
    /\ seedIdx = 0
    /\ sorted_files = <<>>
    /\ foldIdx = 0
    /\ merged_ppsd = -1
    /\ folds = <<>>
    /\ mergeLog = <<>>
    /\ rendered = <<>>

InitCompute ==
    /\ MergeIdle
    /\ ExtraIdle
    /\ RunIdle
    /\ pc = "Start"
    /\ config \in Configs
    /\ raisedBy = "none"
    /\ inventory = "unread"
    /\ mseed_files = <<>>
    /\ merge_fill_value = config.merge_fill_value
    /\ fileIdx = 0
    /\ channel_groups = <<>>
    /\ groupIdx = 0
    /\ traces_to_process = <<>>
    /\ traceIdx = 0
    /\ successful_files = 0
    /\ failed_files = 0
    /\ written = <<>>
    /\ filesRead = <<>>
    /\ groupsEntered = 0
    /\ fed = <<>>
    /\ mergeCalls = <<>>
    /\ mergeFailed = FALSE
    /\ last = NoResult

Raise(why) ==
    /\ pc' = "Raised"
    /\ raisedBy' = why

\* if not mseed_pattern or not inventory_path: raise ValueError
CheckParams ==
    /\ pc = "Start"
    /\ IF ~config.mseed_pattern \/ ~config.inventory_path
       THEN Raise("params")
       ELSE pc' = "MkDir" /\ UNCHANGED raisedBy
    /\ UNCHANGED <<mvars, xvars>>
    /\ UNCHANGED <<config, inventory, mseed_files, merge_fill_value,
                   fileIdx, channel_groups, groupIdx, traces_to_process,
                   traceIdx, successful_files, failed_files, written,
                   filesRead, groupsEntered, fed, mergeCalls,
                   mergeFailed, last>>

\* Path(output_dir).mkdir(parents=True, exist_ok=True): not guarded.
MakeOutputDir ==
    /\ pc = "MkDir"
    /\ \E ok \in BOOLEAN :
          IF ok THEN pc' = "ReadInventory" /\ UNCHANGED raisedBy
          ELSE Raise("mkdir")
    /\ UNCHANGED <<mvars, xvars>>
    /\ UNCHANGED <<config, inventory, mseed_files, merge_fill_value,
                   fileIdx, channel_groups, groupIdx, traces_to_process,
                   traceIdx, successful_files, failed_files, written,
                   filesRead, groupsEntered, fed, mergeCalls,
                   mergeFailed, last>>

\* Fault variant of ReadInventory: the failure is logged and swallowed.
ReadInventorySwallows ==
    /\ pc = "ReadInventory"
    /\ \E ok \in BOOLEAN :
          inventory' = IF ok THEN "loaded" ELSE inventory
    /\ pc' = "Discover"
    /\ UNCHANGED <<mvars, xvars>>
    /\ UNCHANGED <<config, raisedBy, mseed_files, merge_fill_value,
                   fileIdx, channel_groups, groupIdx, traces_to_process,
                   traceIdx, successful_files, failed_files, written,
                   filesRead, groupsEntered, fed, mergeCalls,
                   mergeFailed, last>>

\* inventory = read_inventory(inventory_path); on failure log and re-raise.
ReadInventory ==
    /\ pc = "ReadInventory"
    /\ \E ok \in BOOLEAN :
          IF ok
          THEN pc' = "Discover" /\ inventory' = "loaded" /\ UNCHANGED raisedBy
          ELSE Raise("inventory") /\ UNCHANGED inventory
    /\ UNCHANGED <<mvars, xvars>>
    /\ UNCHANGED <<config, mseed_files, merge_fill_value,
                   fileIdx, channel_groups, groupIdx, traces_to_process,
                   traceIdx, successful_files, failed_files, written,
                   filesRead, groupsEntered, fed, mergeCalls,
                   mergeFailed, last>>

\* mseed_files = self._find_mseed_files(mseed_pattern); raise when empty.
FindFiles ==
    /\ pc = "Discover"
    /\ \E k \in FileCounts : \E globbed \in Orderings(1..k) :
          /\ mseed_files' = FindMseedFiles(globbed)
          /\ IF mseed_files' = <<>>
             THEN Raise("nofiles")
             ELSE pc' = "GapParams" /\ UNCHANGED raisedBy
    /\ UNCHANGED <<mvars, xvars>>
    /\ UNCHANGED <<config, inventory, merge_fill_value,
                   fileIdx, channel_groups, groupIdx, traces_to_process,
                   traceIdx, successful_files, failed_files, written,
                   filesRead, groupsEntered, fed, mergeCalls,
                   mergeFailed, last>>

\* The gap parameters are resolved once, before the file loop starts.
ResolveGapParams ==
    /\ pc = "GapParams"
    /\ merge_fill_value' =
          ResolveFill(config.skip_on_gaps, config.merge_fill_value)
    /\ pc' = "FileLoop"
    /\ fileIdx' = 1
    /\ UNCHANGED <<mvars, xvars>>
    /\ UNCHANGED <<config, raisedBy, inventory, mseed_files,
                   channel_groups, groupIdx, traces_to_process,
                   traceIdx, successful_files, failed_files, written,
                   filesRead, groupsEntered, fed, mergeCalls,
                   mergeFailed, last>>

\* Fault variant of ReadFileFails: the file loop ends at the unreadable file.
ReadFileFailsAborts ==
    /\ pc = "FileLoop"
    /\ fileIdx <= Len(mseed_files)
    /\ filesRead' = Append(filesRead, mseed_files[fileIdx])
    /\ failed_files' = failed_files + 1
    /\ pc' = "Done"
    /\ UNCHANGED <<mvars, xvars>>
    /\ UNCHANGED <<config, raisedBy, inventory, mseed_files,
                   merge_fill_value, fileIdx, channel_groups, groupIdx,
                   traces_to_process, traceIdx, successful_files, written,
                   groupsEntered, fed, mergeCalls, mergeFailed, last>>

\* stream = read(mseed_file) raises: counted, next file.
ReadFileFails ==
    /\ pc = "FileLoop"
    /\ fileIdx <= Len(mseed_files)
    /\ filesRead' = Append(filesRead, mseed_files[fileIdx])
    /\ failed_files' = failed_files + 1
    /\ fileIdx' = fileIdx + 1
    /\ UNCHANGED <<mvars, xvars>>
    /\ UNCHANGED <<pc, config, raisedBy, inventory, mseed_files,
                   merge_fill_value, channel_groups, groupIdx,
                   traces_to_process, traceIdx, successful_files, written,
                   groupsEntered, fed, mergeCalls, mergeFailed,
                   last>>

\* stream = read(mseed_file) and the grouping of its traces by identity.
ReadFile ==
    /\ pc = "FileLoop"
    /\ fileIdx <= Len(mseed_files)
    /\ \E chans \in SeqsOf(Channels, 1, MaxTraces) :
          channel_groups' = GroupByChannel(MakeStream(chans), <<>>)
    /\ filesRead' = Append(filesRead, mseed_files[fileIdx])
    /\ groupsEntered' = 0
    /\ groupIdx' = 1
    /\ pc' = "GroupLoop"
    /\ UNCHANGED <<mvars, xvars>>
    /\ UNCHANGED <<config, raisedBy, inventory, mseed_files,
                   merge_fill_value, fileIdx, traces_to_process, traceIdx,
                   successful_files, failed_files, written, fed,
                   mergeCalls, mergeFailed, last>>

CurrentGroup == channel_groups[groupIdx]

AtGroup == pc = "GroupLoop" /\ groupIdx <= Len(channel_groups)

EnterTraceLoop(traces) ==
    /\ traces_to_process' = traces
    /\ traceIdx' = 1
    /\ fed' = <<>>
    /\ groupsEntered' = groupsEntered + 1
    /\ pc' = "TraceLoop"

\* An exception in the channel-group block outside the two inner handlers
\* (building channel_stream): counted, next channel group.
ChannelGroupFails ==
    /\ AtGroup
    /\ failed_files' = failed_files + 1
    /\ groupsEntered' = groupsEntered + 1
    /\ groupIdx' = groupIdx + 1
    /\ UNCHANGED <<mvars, xvars>>
    /\ UNCHANGED <<pc, config, raisedBy, inventory, mseed_files,
                   merge_fill_value, fileIdx, channel_groups,
                   traces_to_process, traceIdx, successful_files, written,
                   filesRead, fed, mergeCalls, mergeFailed,
                   last>>

\* skip_on_gaps: traces_to_process = channel_stream.traces, no merge.
KeepSegments ==
    /\ AtGroup
    /\ config.skip_on_gaps
    /\ EnterTraceLoop(CurrentGroup.traces)
    /\ mergeFailed' = FALSE
    /\ UNCHANGED <<mvars, xvars>>
    /\ UNCHANGED <<config, raisedBy, inventory, mseed_files,
                   merge_fill_value, fileIdx, channel_groups, groupIdx,
                   successful_files, failed_files, written, filesRead, mergeCalls, last>>

\* not skip_on_gaps and a single trace: nothing to merge.
SingleTrace ==
    /\ AtGroup
    /\ ~config.skip_on_gaps
    /\ Len(CurrentGroup.traces) <= 1
    /\ EnterTraceLoop(CurrentGroup.traces)
    /\ mergeFailed' = FALSE
    /\ UNCHANGED <<mvars, xvars>>
    /\ UNCHANGED <<config, raisedBy, inventory, mseed_files,
                   merge_fill_value, fileIdx, channel_groups, groupIdx,
                   successful_files, failed_files, written, filesRead, mergeCalls, last>>

MergeCall == [method |-> config.merge_method, fill_value |-> merge_fill_value]

\* channel_stream.merge(...) returns: the merged trace(s) are processed.
MergeSegments ==
    /\ AtGroup
    /\ ~config.skip_on_gaps
    /\ Len(CurrentGroup.traces) > 1
    /\ mergeCalls' = Append(mergeCalls, MergeCall)
    /\ \E merged \in MergedStreams(CurrentGroup.traces, config.merge_method) :
          EnterTraceLoop(merged)
    /\ mergeFailed' = FALSE
    /\ UNCHANGED <<mvars, xvars>>
    /\ UNCHANGED <<config, raisedBy, inventory, mseed_files,
                   merge_fill_value, fileIdx, channel_groups, groupIdx,
                   successful_files, failed_files, written, filesRead, last>>

\* channel_stream.merge(...) raises: logged, and channel_stream.traces, as
\* the failed call left it, is processed.
MergeFails ==
    /\ AtGroup
    /\ ~config.skip_on_gaps
    /\ Len(CurrentGroup.traces) > 1
    /\ mergeCalls' = Append(mergeCalls, MergeCall)
    /\ \E left \in StreamAfterFailedMerge(CurrentGroup.traces) :
          EnterTraceLoop(left)
    /\ mergeFailed' = TRUE
    /\ UNCHANGED <<mvars, xvars>>
    /\ UNCHANGED <<config, raisedBy, inventory, mseed_files,
                   merge_fill_value, fileIdx, channel_groups, groupIdx,
                   successful_files, failed_files, written, filesRead, last>>

Artifact(r) ==
    [file |-> r.file, chan |-> r.trace.chan, segs |-> r.trace.segs, n |-> r.n]

\* Fault variant of ProcessTrace: a trace that yielded no window is counted
\* as failed.
ProcessTraceSkipFails ==
    /\ pc = "TraceLoop"
    /\ traceIdx <= Len(traces_to_process)
    /\ \E outcome \in TraceOutcomes : \E n \in WindowCounts :
          LET r == ProcessSingle(traces_to_process[traceIdx],
                                 mseed_files[fileIdx], outcome, n)
              bad == r.raised \/ (r.added /\ IsEmptyResult(r.n))
          IN  /\ last' = r
              /\ written' = IF r.saved THEN Append(written, Artifact(r))
                            ELSE written
              /\ successful_files' =
                    IF bad THEN successful_files ELSE successful_files + 1
              /\ failed_files' =
                    IF bad THEN failed_files + 1 ELSE failed_files
    /\ fed' = Append(fed, traces_to_process[traceIdx])
    /\ traceIdx' = traceIdx + 1
    /\ UNCHANGED <<mvars, xvars>>
    /\ UNCHANGED <<pc, config, raisedBy, inventory, mseed_files,
                   merge_fill_value, fileIdx, channel_groups, groupIdx,
                   traces_to_process, filesRead, groupsEntered,
                   mergeCalls, mergeFailed>>

\* One pass of the trace loop: _process_single_merged_trace_to_npz, then
\* successful_files += 1, or failed_files += 1 when it raised.
ProcessTrace ==
    /\ pc = "TraceLoop"
    /\ traceIdx <= Len(traces_to_process)
    /\ \E outcome \in TraceOutcomes : \E n \in WindowCounts :
          LET r == ProcessSingle(traces_to_process[traceIdx],
                                 mseed_files[fileIdx], outcome, n)
          IN  /\ last' = r
              /\ written' = IF r.saved THEN Append(written, Artifact(r))
                            ELSE written
              /\ successful_files' =
                    IF r.raised THEN successful_files ELSE successful_files + 1
              /\ failed_files' =
                    IF r.raised THEN failed_files + 1 ELSE failed_files
    /\ fed' = Append(fed, traces_to_process[traceIdx])
    /\ traceIdx' = traceIdx + 1
    /\ UNCHANGED <<mvars, xvars>>
    /\ UNCHANGED <<pc, config, raisedBy, inventory, mseed_files,
                   merge_fill_value, fileIdx, channel_groups, groupIdx,
                   traces_to_process, filesRead, groupsEntered,
                   mergeCalls, mergeFailed>>

\* The trace loop is exhausted: next channel group.
EndGroup ==
    /\ pc = "TraceLoop"
    /\ traceIdx > Len(traces_to_process)
    /\ groupIdx' = groupIdx + 1
    /\ pc' = "GroupLoop"
    /\ UNCHANGED <<mvars, xvars>>
    /\ UNCHANGED <<config, raisedBy, inventory, mseed_files,
                   merge_fill_value, fileIdx, channel_groups,
                   traces_to_process, traceIdx, successful_files,
                   failed_files, written, filesRead, groupsEntered, fed,
                   mergeCalls, mergeFailed, last>>

\* The channel groups of the file are exhausted: next file.
EndFile ==
    /\ pc = "GroupLoop"
    /\ groupIdx > Len(channel_groups)
    /\ fileIdx' = fileIdx + 1
    /\ pc' = "FileLoop"
    /\ UNCHANGED <<mvars, xvars>>
    /\ UNCHANGED <<config, raisedBy, inventory, mseed_files,
                   merge_fill_value, channel_groups, groupIdx,
                   traces_to_process, traceIdx, successful_files,
                   failed_files, written, filesRead, groupsEntered, fed,
                   mergeCalls, mergeFailed, last>>

\* The file loop is exhausted: the counters are logged and the call returns.
Finish ==
    /\ pc = "FileLoop"
    /\ fileIdx > Len(mseed_files)
    /\ pc' = "Done"
    /\ UNCHANGED <<mvars, xvars>>
    /\ UNCHANGED <<config, raisedBy, inventory, mseed_files,
                   merge_fill_value, fileIdx, channel_groups, groupIdx,
                   traces_to_process, traceIdx, successful_files,
                   failed_files, written, filesRead, groupsEntered, fed,
                   mergeCalls, mergeFailed, last>>

NextCompute ==
    \/ CheckParams
    \/ MakeOutputDir
    \/ ReadInventory
    \/ FindFiles
    \/ ResolveGapParams
    \/ ReadFileFails
    \/ ReadFile
    \/ ChannelGroupFails
    \/ KeepSegments
    \/ SingleTrace
    \/ MergeSegments
    \/ MergeFails
    \/ ProcessTrace
    \/ EndGroup
    \/ EndFile
    \/ Finish

SpecCompute == InitCompute /\ [][NextCompute]_vars

\* The scheduling of calculate_ppsd: a sequential loop, whose next step is
\* always taken.
SpecComputeFair == SpecCompute /\ WF_vars(NextCompute)

\* -------------------------------------------- compute properties
InLoop == pc \in {"FileLoop", "GroupLoop", "TraceLoop"}

\* C1: an artifact is saved only from an accumulator whose window count,
\* read after add returned, is greater than zero; a trace whose add returned
\* with zero windows left no artifact.
C1_PersistOnlyNonEmpty ==
    /\ \A i \in 1..Len(written) : written[i].n > 0
    /\ last.saved => (last.added /\ last.n > 0 /\ Artifact(last) \in Range(written))
    /\ (last.added /\ last.n = 0) =>
          /\ ~last.saved
          /\ ~last.raised
          /\ \A i \in 1..Len(written) :
                ~(/\ written[i].file = last.file
                  /\ written[i].chan = last.trace.chan
                  /\ written[i].segs = last.trace.segs)

\* The add of the last trace returned with zero windows, after an earlier
\* trace of the batch was saved.
C1_Witness ==
    /\ last.added
    /\ last.n = 0
    /\ Len(written) = 1
    /\ successful_files = 2

\* C7: with skip_on_gaps the resolved fill value is None whatever was
\* configured, Stream.merge is never called, the list handed to the trace
\* loop is the group's list of segments as grouped, and the traces fed to
\* accumulation are that list's traces in order, one accumulator each.
C7_SkipOnGapsKeepsSegments ==
    (config.skip_on_gaps /\ (InLoop \/ pc = "Done")) =>
        /\ merge_fill_value = NoFill
        /\ mergeCalls = <<>>
        /\ pc = "TraceLoop" =>
              /\ traces_to_process = CurrentGroup.traces
              /\ fed = SubSeq(CurrentGroup.traces, 1, traceIdx - 1)
              /\ \A i \in 1..Len(traces_to_process) :
                    Len(traces_to_process[i].segs) = 1
              /\ fed # <<>> => last.trace = fed[Len(fed)]
        /\ pc \in {"GroupLoop", "FileLoop", "Done"} => fed = traces_to_process

\* skip_on_gaps with a configured numeric fill value: both segments of a
\* two-segment group have been fed.
C7_Witness ==
    /\ config.skip_on_gaps
    /\ config.merge_fill_value = "0"
    /\ pc = "TraceLoop"
    /\ Len(CurrentGroup.traces) = 2
    /\ fed = CurrentGroup.traces

\* C8 as stated: when the merge of a group raised, the group is not counted
\* as failed and the trace loop is given the group's original segments.
C8_FallbackToOriginalSegments ==
    (pc = "TraceLoop" /\ mergeFailed) =>
        traces_to_process = CurrentGroup.traces

AllAttempted ==
    /\ InLoop => raisedBy = "none"
    /\ pc = "FileLoop" => Len(filesRead) = fileIdx - 1
    /\ pc \in {"GroupLoop", "TraceLoop"} => Len(filesRead) = fileIdx
    /\ (InLoop \/ pc = "Done") =>
          filesRead = SubSeq(mseed_files, 1, Len(filesRead))
    /\ pc = "Done" => filesRead = mseed_files
    /\ pc \in {"FileLoop", "Done"} => groupsEntered = Len(channel_groups)
    /\ pc = "GroupLoop" => groupsEntered = groupIdx - 1
    /\ pc = "TraceLoop" =>
          /\ groupsEntered = groupIdx
          /\ fed = SubSeq(traces_to_process, 1, traceIdx - 1)
    /\ pc \in {"FileLoop", "GroupLoop", "Done"} => fed = traces_to_process

\* C9: once files were found, no failure ends a loop early (every file is
\* handed to read, every channel group of a file that was read is entered,
\* every trace of the list of a group is handed to accumulation), and the
\* batch reaches Done.
C9_BatchNeverAborts ==
    /\ []AllAttempted
    /\ (pc = "GapParams") ~> (pc = "Done")

\* Done with nothing but failures: an unreadable file and a file whose
\* traces all failed.
C9_Witness ==
    /\ pc = "Done"
    /\ Len(filesRead) = 2
    /\ successful_files = 0
    /\ failed_files = 3

StructuralFailures == {"params", "mkdir", "inventory", "nofiles"}

\* C10 as stated: calculate_ppsd raises only for missing parameters, an
\* unreadable station-metadata catalog or zero input files.
C10_RaisesOnlyForListedFailures ==
    pc = "Raised" => raisedBy \in {"params", "inventory", "nofiles"}

\* C10 amended: calculate_ppsd raises exactly for the structural failures
\* (missing parameters, output directory that cannot be created, unreadable
\* station-metadata catalog, zero input files), each time before any file is
\* read or any artifact written, and no per-item failure makes it raise.
C10_RaisesIffStructuralFailure ==
    /\ pc = "Raised" <=> raisedBy \in StructuralFailures
    /\ raisedBy \in StructuralFailures \cup {"none"}
    /\ pc = "Raised" =>
          /\ filesRead = <<>>
          /\ written = <<>>
          /\ successful_files = 0
          /\ failed_files = 0
    /\ (~config.mseed_pattern \/ ~config.inventory_path) =>
          pc \in {"Start", "Raised"}
    /\ (InLoop \/ pc = "Done") =>
          /\ inventory = "loaded"
          /\ mseed_files # <<>>
    /\ failed_files > 0 => (InLoop \/ pc = "Done")

\* The parameters were present, the directory was made and the catalog was
\* read, and calculate_ppsd raised because no file was found.
C10_Witness ==
    /\ pc = "Raised"
    /\ raisedBy = "nofiles"
    /\ inventory = "loaded"

\* ------------------------------------------------ snapshot merge
\* Identities the resolver can give an artifact.
SeedIds == {"BJ.DAX.00.BHZ", "BJ.BBS.00.BHZ"}

\* Processed-window counts a persisted artifact can hold.
ArtifactCounts == {0, 10, 15}

\* Accumulator parameter sets (window length, binning, ...); add_npz raises
\* when the artifact's parameters differ from the accumulator's.
ParamSets == {"P3600", "P1800"}

\* args['plot_type']
PlotTypes == <<"standard", "temporal">>

\* An artifact on disk: unreadable (corrupt), or a persisted accumulator.
Artifacts(seeds, counts, params) ==
    [corrupt : {TRUE}, count : {0}, params : {"P3600"}, seed : seeds]
    \cup [corrupt : {FALSE}, count : counts, params : params, seed : seeds]

\* Fault variant of AddToSeedGroups: seed_groups[seed_id] = [npz_file].
AddToSeedGroupsReplaces(groups, f, seed) ==
    IF \E k \in 1..Len(groups) : groups[k].seed_id = seed
    THEN [k \in 1..Len(groups) |->
            IF groups[k].seed_id = seed
            THEN [groups[k] EXCEPT !.file_list = <<f>>]
            ELSE groups[k]]
    ELSE Append(groups, [seed_id |-> seed, file_list |-> <<f>>])

\* seed_groups[seed_id].append(npz_file), creating the list when absent.
AddToSeedGroups(groups, f, seed) ==
    IF \E k \in 1..Len(groups) : groups[k].seed_id = seed
    THEN [k \in 1..Len(groups) |->
            IF groups[k].seed_id = seed
            THEN [groups[k] EXCEPT !.file_list = Append(@, f)]
            ELSE groups[k]]
    ELSE Append(groups, [seed_id |-> seed, file_list |-> <<f>>])

RECURSIVE GroupBySeedId(_, _, _)
GroupBySeedId(files, d, groups) ==
    IF files = <<>> THEN groups
    ELSE GroupBySeedId(Tail(files), d,
                       AddToSeedGroups(groups, Head(files), d[Head(files)].seed))

\* PPSD.load_npz(base_file) raises.
LoadRaises(d, f) == d[f].corrupt

\* Fault variant of AddNpzRaises: differing parameters go unnoticed.
AddNpzRaisesOnlyCorrupt(d, base, f) == d[f].corrupt

\* merged_ppsd.add_npz(additional_file) raises: the file is unreadable or
\* its parameters are not those of the base accumulator.
AddNpzRaises(d, base, f) == d[f].corrupt \/ d[f].params # d[base].params

\* Fault variant of AddNpz: the artifact's windows replace the base's.
AddNpzReplaces(count, d, f) == d[f].count

\* merged_ppsd.add_npz(additional_file): the artifact's windows are added.
AddNpz(count, d, f) == count + d[f].count

InitPlot(seeds, counts, params) ==
    /\ ComputeIdle
    /\ ExtraIdle
    /\ RunIdle
    /\ mpc = "Start"
    /\ \E k \in 1..MaxArtifacts :
          /\ npz_files \in Orderings(1..k)
          /\ disk \in [1..k -> Artifacts(seeds, counts, params)]
    /\ seed_groups = <<>>
    /\ seedIdx = 0
    /\ sorted_files = <<>>
    /\ foldIdx = 0
    /\ merged_ppsd = -1
    /\ folds = <<>>
    /\ mergeLog = <<>>
    /\ rendered = <<>>

\* One SeedGroup, every kind of artifact.
InitMerge == InitPlot({"BJ.DAX.00.BHZ"}, ArtifactCounts, ParamSets)

\* Several SeedGroups.
InitPlotMerged == InitPlot(SeedIds, {0, 10}, {"P3600"})

\* seed_groups = self._group_npz_files_by_seed_id(npz_files)
StartPlotMerged ==
    /\ mpc = "Start"
    /\ seed_groups' = GroupBySeedId(npz_files, disk, <<>>)
    /\ seedIdx' = 1
    /\ mpc' = "Group"
    /\ UNCHANGED <<cvars, xvars>>
    /\ UNCHANGED <<npz_files, disk, sorted_files, foldIdx, merged_ppsd, folds,
                   mergeLog, rendered>>

CurrentSeedGroup == seed_groups[seedIdx]

AtSeedGroup == mpc = "Group" /\ seedIdx <= Len(seed_groups)

\* _create_merged_ppsd_with_add_npz: sort, then load the first file.
LoadBase ==
    /\ AtSeedGroup
    /\ LET sf == Sorted(CurrentSeedGroup.file_list)
       IN  /\ ~LoadRaises(disk, sf[1])
           /\ sorted_files' = sf
           /\ merged_ppsd' = disk[sf[1]].count
    /\ foldIdx' = 2
    /\ folds' = <<>>
    /\ mpc' = "Fold"
    /\ UNCHANGED <<cvars, xvars>>
    /\ UNCHANGED <<npz_files, disk, seed_groups, seedIdx, mergeLog, rendered>>

\* Fault variant of LoadBaseFails: the group loop ends at the failed group.
LoadBaseFailsAborts ==
    /\ AtSeedGroup
    /\ LoadRaises(disk, Sorted(CurrentSeedGroup.file_list)[1])
    /\ mpc' = "Done"
    /\ UNCHANGED <<cvars, xvars>>
    /\ UNCHANGED <<npz_files, disk, seed_groups, seedIdx, sorted_files,
                   foldIdx, merged_ppsd, folds, mergeLog, rendered>>

\* The base load raises: _create_merged_ppsd_with_add_npz re-raises, the
\* group's handler in _plot_merged_npz_files logs and continues.
LoadBaseFails ==
    /\ AtSeedGroup
    /\ LET sf == Sorted(CurrentSeedGroup.file_list)
       IN  /\ LoadRaises(disk, sf[1])
           /\ sorted_files' = sf
           /\ mergeLog' = Append(mergeLog,
                 [seed_id |-> CurrentSeedGroup.seed_id,
                  files |-> CurrentSeedGroup.file_list,
                  base |-> sf[1], raised |-> TRUE, folds |-> <<>>,
                  final |-> -1])
    /\ foldIdx' = 0
    /\ folds' = <<>>
    /\ merged_ppsd' = -1
    /\ seedIdx' = seedIdx + 1
    /\ UNCHANGED <<cvars, xvars>>
    /\ UNCHANGED <<mpc, npz_files, disk, seed_groups, rendered>>

AtFold == mpc = "Fold" /\ foldIdx <= Len(sorted_files)

\* add_npz returns: before_count and after_count are read around it.
Fold ==
    /\ AtFold
    /\ ~AddNpzRaises(disk, sorted_files[1], sorted_files[foldIdx])
    /\ merged_ppsd' = AddNpz(merged_ppsd, disk, sorted_files[foldIdx])
    /\ folds' = Append(folds, [file |-> sorted_files[foldIdx], ok |-> TRUE,
                               before |-> merged_ppsd, after |-> merged_ppsd'])
    /\ foldIdx' = foldIdx + 1
    /\ UNCHANGED <<cvars, xvars>>
    /\ UNCHANGED <<mpc, npz_files, disk, seed_groups, seedIdx, sorted_files,
                   mergeLog, rendered>>

\* Fault variant of FoldFails: the fold loop ends at the failed artifact.
FoldFailsAborts ==
    /\ AtFold
    /\ AddNpzRaises(disk, sorted_files[1], sorted_files[foldIdx])
    /\ folds' = Append(folds, [file |-> sorted_files[foldIdx], ok |-> FALSE,
                               before |-> merged_ppsd, after |-> merged_ppsd])
    /\ foldIdx' = Len(sorted_files) + 1
    /\ UNCHANGED <<cvars, xvars>>
    /\ UNCHANGED <<mpc, npz_files, disk, seed_groups, seedIdx, sorted_files,
                   merged_ppsd, mergeLog, rendered>>

\* add_npz raises: logged, continue with the next file.
FoldFails ==
    /\ AtFold
    /\ AddNpzRaises(disk, sorted_files[1], sorted_files[foldIdx])
    /\ folds' = Append(folds, [file |-> sorted_files[foldIdx], ok |-> FALSE,
                               before |-> merged_ppsd, after |-> merged_ppsd])
    /\ foldIdx' = foldIdx + 1
    /\ UNCHANGED <<cvars, xvars>>
    /\ UNCHANGED <<mpc, npz_files, disk, seed_groups, seedIdx, sorted_files,
                   merged_ppsd, mergeLog, rendered>>

\* The fold loop is exhausted: final_count is logged (with a warning when it
\* is zero) and merged_ppsd is returned.
ReturnMerged ==
    /\ mpc = "Fold"
    /\ foldIdx > Len(sorted_files)
    /\ mergeLog' = Append(mergeLog,
          [seed_id |-> CurrentSeedGroup.seed_id,
           files |-> CurrentSeedGroup.file_list,
           base |-> sorted_files[1], raised |-> FALSE, folds |-> folds,
           final |-> merged_ppsd])
    /\ mpc' = "Render"
    /\ UNCHANGED <<cvars, xvars>>
    /\ UNCHANGED <<npz_files, disk, seed_groups, seedIdx, sorted_files,
                   foldIdx, merged_ppsd, folds, rendered>>

\* Fault variant of RenderResult: the window count is not looked at.
RenderResultUnchecked(count, drawn) == IF drawn THEN "saved" ELSE "raised"

\* _create_merged_plot_for_seed returns at once when the accumulator holds
\* no window; otherwise the drawing saves the image or raises.
RenderResult(count, drawn) ==
    IF count = 0 THEN "skipped" ELSE IF drawn THEN "saved" ELSE "raised"

\* The plot-kind loop of one group: each kind is attempted, a failure is
\* logged and the loop continues.
RenderGroup ==
    /\ mpc = "Render"
    /\ \E drawn \in [1..Len(PlotTypes) -> BOOLEAN] :
          rendered' = rendered \o
              [i \in 1..Len(PlotTypes) |->
                  [seed_id |-> CurrentSeedGroup.seed_id,
                   kind |-> PlotTypes[i],
                   result |-> RenderResult(merged_ppsd, drawn[i])]]
    /\ seedIdx' = seedIdx + 1
    /\ mpc' = "Group"
    /\ UNCHANGED <<cvars, xvars>>
    /\ UNCHANGED <<npz_files, disk, seed_groups, sorted_files, foldIdx,
                   merged_ppsd, folds, mergeLog>>

\* The group loop is exhausted: _plot_merged_npz_files returns.
PlotMergedDone ==
    /\ mpc = "Group"
    /\ seedIdx > Len(seed_groups)
    /\ mpc' = "Done"
    /\ UNCHANGED <<cvars, xvars>>
    /\ UNCHANGED <<npz_files, disk, seed_groups, seedIdx, sorted_files,
                   foldIdx, merged_ppsd, folds, mergeLog, rendered>>

NextPlotMerged ==
    \/ StartPlotMerged
    \/ LoadBase
    \/ LoadBaseFails
    \/ Fold
    \/ FoldFails
    \/ ReturnMerged
    \/ RenderGroup
    \/ PlotMergedDone

SpecMerge == InitMerge /\ [][NextPlotMerged]_vars

SpecPlotMerged == InitPlotMerged /\ [][NextPlotMerged]_vars

\* ---------------------------------------------- merge properties
RECURSIVE SumCounts(_, _)
SumCounts(d, S) ==
    IF S = {} THEN 0
    ELSE LET x == CHOOSE y \in S : TRUE
         IN  d[x].count + SumCounts(d, S \ {x})

MinOf(S) == CHOOSE x \in S : \A y \in S : x <= y

\* The ascending arrangement of a set of paths: its least element first.
RECURSIVE Ascending(_)
Ascending(S) ==
    IF S = {} THEN <<>> ELSE <<MinOf(S)>> \o Ascending(S \ {MinOf(S)})

FoldFiles(r) == [i \in 1..Len(r.folds) |-> r.folds[i].file]

\* The artifacts whose windows a finished merge holds.
Contributors(r) ==
    {r.base} \cup {r.folds[i].file : i \in {j \in 1..Len(r.folds) : r.folds[j].ok}}

Merges == Range(mergeLog)

\* C2: in a merge that got its base, every non-base artifact is attempted
\* in sorted order whatever happened to the ones before it; an artifact whose
\* add_npz raised is skipped (the count is left as it was), and the merge
\* itself raises only when the base load raised, never for a fold.
C2_FoldFailureIsSkipped ==
    \A r \in Merges :
        /\ r.raised => LoadRaises(disk, r.base)
        /\ ~r.raised =>
              /\ FoldFiles(r) = Tail(Ascending(Range(r.files)))
              /\ \A i \in 1..Len(r.folds) :
                    /\ r.folds[i].ok = ~AddNpzRaises(disk, r.base, r.folds[i].file)
                    /\ ~r.folds[i].ok => r.folds[i].after = r.folds[i].before
              /\ r.final = IF r.folds = <<>> THEN disk[r.base].count
                           ELSE r.folds[Len(r.folds)].after

\* A returned merge of three artifacts whose second failed to fold and whose
\* third was folded after it.
C2_Witness ==
    \E r \in Merges :
        /\ ~r.raised
        /\ Len(r.folds) = 2
        /\ ~r.folds[1].ok
        /\ r.folds[2].ok
        /\ r.final > disk[r.base].count

\* x is the one corrupt or incompatible artifact of the set S: every other
\* artifact loads and they agree on their parameters; x is unreadable, or
\* (among at least three) the one whose parameters differ.
OneBad(S, x) ==
    /\ x \in S
    /\ Cardinality(S) >= 2
    /\ \A y \in S \ {x} : ~disk[y].corrupt
    /\ \A y, z \in S \ {x} : disk[y].params = disk[z].params
    /\ \/ disk[x].corrupt
       \/ /\ Cardinality(S) >= 3
          /\ \A y \in S \ {x} : disk[y].params # disk[x].params

\* C3 as stated: with exactly one corrupt or incompatible artifact, whatever
\* its position in the sorted order, the merge returns an accumulator built
\* from the other artifacts.
C3_AnyPositionNotAborted ==
    \A r \in Merges : \A x \in Range(r.files) :
        OneBad(Range(r.files), x) =>
            /\ ~r.raised
            /\ Contributors(r) = Range(r.files) \ {x}

\* C3 amended: with exactly one corrupt or incompatible artifact that is not
\* first in sorted order, the merge returns an accumulator built from the
\* other artifacts; when it is first, a corrupt one makes the merge raise
\* and an incompatible one becomes the base and is all the result holds.
C3_NonBasePositionNotAborted ==
    \A r \in Merges : \A x \in Range(r.files) :
        OneBad(Range(r.files), x) =>
            IF x # MinOf(Range(r.files))
            THEN /\ ~r.raised
                 /\ Contributors(r) = Range(r.files) \ {x}
            ELSE IF disk[x].corrupt
            THEN r.raised
            ELSE ~r.raised /\ Contributors(r) = {x}

\* Among three artifacts the incompatible one is the middle one in sorted
\* order, and the merge returned the two others.
C3_Witness ==
    \E r \in Merges :
        /\ Len(r.files) = 3
        /\ ~r.raised
        /\ OneBad(Range(r.files), r.folds[1].file)
        /\ ~disk[r.folds[1].file].corrupt
        /\ Contributors(r) = Range(r.files) \ {r.folds[1].file}

\* C4: the window count a merge returns is the sum of the counts of the base
\* and of the artifacts that did not fail to fold, and each successful fold
\* raised the count by exactly the folded artifact's own count (also in the
\* merge in progress).
C4_MergedCountIsSum ==
    /\ \A r \in Merges :
          ~r.raised =>
              /\ r.final = SumCounts(disk, Contributors(r))
              /\ \A i \in 1..Len(r.folds) :
                    r.folds[i].ok =>
                        r.folds[i].after - r.folds[i].before
                            = disk[r.folds[i].file].count
    /\ \A i \in 1..Len(folds) :
          folds[i].ok => folds[i].after - folds[i].before = disk[folds[i].file].count

\* Counts 10 and 15 and a corrupt third artifact: 25 windows, one skip.
C4_Witness ==
    \E r \in Merges :
        /\ ~r.raised
        /\ Len(r.folds) = 2
        /\ disk[r.base].count = 10
        /\ r.folds[1].ok /\ disk[r.folds[1].file].count = 15
        /\ ~r.folds[2].ok /\ disk[r.folds[2].file].corrupt
        /\ r.final = 25

\* What a merge of the set S of artifacts yields, whatever order they were
\* listed in: the smallest path is the base, and the windows of the others
\* that load and agree with it are added.
ExpectedFinal(S) ==
    SumCounts(disk,
        {MinOf(S)} \cup {y \in S \ {MinOf(S)} : ~AddNpzRaises(disk, MinOf(S), y)})

\* C5: base, fold order and final count of a merge are functions of the set
\* of paths alone: the base is the smallest path, the others are folded in
\* ascending order, and the final count is the same for every listing order.
C5_MergeDeterminism ==
    \A r \in Merges :
        /\ r.base = MinOf(Range(r.files))
        /\ ~r.raised =>
              /\ FoldFiles(r) = Tail(Ascending(Range(r.files)))
              /\ r.final = ExpectedFinal(Range(r.files))

\* A returned merge whose three paths were listed in descending order.
C5_Witness ==
    \E r \in Merges :
        /\ ~r.raised
        /\ Len(r.files) = 3
        /\ r.files[1] > r.files[2] /\ r.files[2] > r.files[3]
        /\ r.base = r.files[3]
        /\ r.final > 0

\* C6: a merge whose base load raised folded nothing; its group is rendered
\* in no plot kind; and when _plot_merged_npz_files is done every group has
\* been merged, in order, and every group whose merge returned has had every
\* plot kind attempted.
C6_BaseFailureIsPerGroup ==
    /\ \A r \in Merges :
          /\ LoadRaises(disk, r.base) <=> r.raised
          /\ r.raised =>
                /\ r.folds = <<>>
                /\ \A i \in 1..Len(rendered) : rendered[i].seed_id # r.seed_id
    /\ mpc = "Done" =>
          /\ Len(mergeLog) = Len(seed_groups)
          /\ \A i \in 1..Len(seed_groups) :
                /\ mergeLog[i].seed_id = seed_groups[i].seed_id
                /\ mergeLog[i].files = seed_groups[i].file_list
                /\ ~mergeLog[i].raised =>
                      \A k \in 1..Len(PlotTypes) :
                          \E j \in 1..Len(rendered) :
                              /\ rendered[j].seed_id = seed_groups[i].seed_id
                              /\ rendered[j].kind = PlotTypes[k]

\* The first group's base failed to load, the second group was merged from
\* two artifacts and an image of it was saved.
C6_Witness ==
    /\ mpc = "Done"
    /\ Len(mergeLog) = 2
    /\ mergeLog[1].raised
    /\ Len(mergeLog[1].files) = 2
    /\ ~mergeLog[2].raised
    /\ \E j \in 1..Len(rendered) :
          rendered[j].seed_id = mergeLog[2].seed_id /\ rendered[j].result = "saved"

\* ------------------------------------------------------- plot_ppsd
\* What config['input_npz_dir'] is: not configured, a path that does not
\* exist, a directory that exists.
InputDirs == {"unset", "missing", "exists"}

\* What config['inventory_path'] is: not configured, a path that does not
\* exist, a file read_inventory fails on, a file it reads.
InventoryPaths == {"unset", "missing", "unreadable", "readable"}

\* Numbers of *.npz files in the input directory.
NpzCounts == {0, 1, 2}

PlotConfigs ==
    [input_npz_dir : InputDirs, inventory_path : InventoryPaths,
     npz_merge_strategy : BOOLEAN, npz_in_dir : NpzCounts]

\* Everything but the state of plot_ppsd.
notPlot == <<cvars, mvars, gvars, evars, svars, nvars, tvars,
      rvars, kvars>>

InitPlotPpsd ==
    /\ ComputeIdle
    /\ MergeIdle
    /\ RunIdle
    /\ typeIdx = 0
    /\ ppc = "Start"
    /\ plot_config \in PlotConfigs
    /\ plot_inventory = "none"
    /\ plot_npz_files = Unbound
    /\ plot_raisedBy = "none"
    /\ gpc = "Idle"
    /\ archive = <<>>
    /\ group_files = <<>>
    /\ npzIdx = 0
    /\ id_groups = <<>>
    /\ resolved = <<>>
    /\ filename = <<>>
    /\ extracted = Unbound
    /\ file_stream = <<>>
    /\ streamIdx = 0
    /\ trace_groups = <<>>
    /\ gen_args = <<>>
    /\ generated = Unbound
    /\ tpc = "Idle"
    /\ trace_args = <<>>
    /\ special_handling = NoMode
    /\ metadata = "none"
    /\ ppsd = <<>>
    /\ warned = FALSE
    /\ trace_raised = "none"

PlotRaise(why) ==
    /\ ppc' = "Raised"
    /\ plot_raisedBy' = why

\* if not input_npz_dir or not os.path.exists(input_npz_dir): raise
PlotCheckInputDir ==
    /\ ppc = "Start"
    /\ IF plot_config.input_npz_dir # "exists"
       THEN PlotRaise("nodir")
       ELSE ppc' = "MkDir" /\ UNCHANGED plot_raisedBy
    /\ UNCHANGED <<plot_config, plot_inventory, plot_npz_files>>
    /\ UNCHANGED notPlot

\* Path(output_dir).mkdir(parents=True, exist_ok=True): not guarded.
PlotMakeOutputDir ==
    /\ ppc = "MkDir"
    /\ \E ok \in BOOLEAN :
          IF ok THEN ppc' = "ReadInventory" /\ UNCHANGED plot_raisedBy
          ELSE PlotRaise("mkdir")
    /\ UNCHANGED <<plot_config, plot_inventory, plot_npz_files>>
    /\ UNCHANGED notPlot

\* os.path.exists(inventory_path) for a configured path
InventoryPathExists(path) == path \in {"unreadable", "readable"}

\* The block of `if inventory_path and os.path.exists(inventory_path):`,
\* which holds the guarded read_inventory call and, after it and at the
\* same indentation, the assignment npz_files = glob.glob(...).  When the
\* condition is false neither statement runs.
PlotReadInventory ==
    /\ ppc = "ReadInventory"
    /\ IF InventoryPathExists(plot_config.inventory_path)
       THEN /\ plot_inventory' =
                  IF plot_config.inventory_path = "readable"
                  THEN "loaded" ELSE "none"
            /\ \E globbed \in Orderings(1..plot_config.npz_in_dir) :
                  plot_npz_files' = Bound(globbed)
       ELSE UNCHANGED <<plot_inventory, plot_npz_files>>
    /\ ppc' = "CheckFound"
    /\ UNCHANGED <<plot_config, plot_raisedBy>>
    /\ UNCHANGED notPlot

\* if not npz_files: raise ValueError.  Reading the name npz_files when it
\* was never assigned raises UnboundLocalError.
PlotCheckFound ==
    /\ ppc = "CheckFound"
    /\ IF plot_npz_files = Unbound THEN PlotRaise("unbound")
       ELSE IF plot_npz_files.value = <<>> THEN PlotRaise("nofiles")
       ELSE ppc' = "Dispatch" /\ UNCHANGED plot_raisedBy
    /\ UNCHANGED <<plot_config, plot_inventory, plot_npz_files>>
    /\ UNCHANGED notPlot

\* npz_merge_strategy selects _plot_individual_npz_files or
\* _plot_merged_npz_files.
PlotDispatch ==
    /\ ppc = "Dispatch"
    /\ ppc' = IF plot_config.npz_merge_strategy THEN "Merged" ELSE "Individual"
    /\ UNCHANGED <<plot_config, plot_inventory, plot_npz_files, plot_raisedBy>>
    /\ UNCHANGED notPlot

\* The plotting procedure returns (each catches the failures of its items)
\* and plot_ppsd logs its completion.
PlotReturn ==
    /\ ppc \in {"Merged", "Individual"}
    /\ ppc' = "Done"
    /\ UNCHANGED <<plot_config, plot_inventory, plot_npz_files, plot_raisedBy>>
    /\ UNCHANGED notPlot

NextPlotPpsd ==
    \/ PlotCheckInputDir
    \/ PlotMakeOutputDir
    \/ PlotReadInventory
    \/ PlotCheckFound
    \/ PlotDispatch
    \/ PlotReturn

SpecPlot == InitPlotPpsd /\ [][NextPlotPpsd]_vars

\* C11 as stated: when input_npz_dir exists and holds at least one artifact
\* (and the output directory can be made), plot_ppsd does not raise, whether
\* inventory_path is readable, unreadable or not configured.
C11_PlotProceedsWhateverInventory ==
    (/\ plot_config.input_npz_dir = "exists"
     /\ plot_config.npz_in_dir > 0
     /\ plot_raisedBy # "mkdir") => ppc # "Raised"

\* ------------------------------------ _extract_seed_id_from_filename
\* A string is the sequence of its pieces: the separators "_", "-" and ".",
\* the literals "PPSD" and ".npz", and words holding none of these.

\* Most '_'-delimited segments a generated file name has.
MaxNameSegments == 4

\* Segments file names are built from: words, the PPSD marker, hyphenated
\* tokens of 2, 3, 4 and 5 parts (one with an empty part), dotted
\* identities of 4 parts (one with an empty location code) and of 2 parts.
SegmentShapes ==
    { <<"sta">>,
      <<"PPSD">>,
      <<"20250101">>,
      <<"BJ", "-", "DAX">>,
      <<"BJ", "-", "-", "BHZ">>,
      <<"BJ", "-", "DAX", "-", "00", "-", "BHZ">>,
      <<"BJ", "-", "DAX", "-", "00", "-", "BHZ", "-", "D">>,
      <<"BJ", ".", "DAX", ".", "00", ".", "BHZ">>,
      <<"BJ", ".", "DAX", ".", ".", "BHN">>,
      <<"BJ", ".", "DAX">> }

\* '_'.join(segs)
RECURSIVE JoinSegments(_)
JoinSegments(segs) ==
    IF Len(segs) = 1 THEN segs[1]
    ELSE segs[1] \o <<"_">> \o JoinSegments(Tail(segs))

\* The *.npz file names of at most n segments.
Filenames(n) ==
    {JoinSegments(segs) \o <<".npz">> : segs \in SeqsOf(SegmentShapes, 1, n)}

IsNotNpzExt(t) == t # ".npz"

\* filename.replace('.npz', '')
StripNpz(name) == SelectSeq(name, IsNotNpzExt)

\* s.split(sep): the pieces between the separators, empty ones included.
RECURSIVE Split(_, _)
Split(s, sep) ==
    IF s = <<>> THEN << <<>> >>
    ELSE LET rest == Split(Tail(s), sep)
         IN  IF Head(s) = sep THEN << <<>> >> \o rest
             ELSE << <<Head(s)>> \o Head(rest) >> \o Tail(rest)

\* s.count(t)
CountOf(s, t) == Cardinality({i \in 1..Len(s) : s[i] = t})

\* sub in s
Contains(s, sub) ==
    \E i \in 0..(Len(s) - Len(sub)) : SubSeq(s, i + 1, i + Len(sub)) = sub

\* s.startswith(prefix)
StartsWith(s, prefix) ==
    Len(s) >= Len(prefix) /\ SubSeq(s, 1, Len(prefix)) = prefix

\* s.replace(a, b) for single pieces a and b
ReplaceAll(s, a, b) == [i \in 1..Len(s) |-> IF s[i] = a THEN b ELSE s[i]]

\* Fault variant of LooksLikeSeedId: one hyphen is enough.
LooksLikeSeedIdLoose(part) == CountOf(part, "-") >= 1

\* '-' in part and len(part.split('-')) >= 3
LooksLikeSeedId(part) ==
    CountOf(part, "-") >= 1 /\ Len(Split(part, "-")) >= 3

\* for part in reversed(parts): the last part that looks like an identity,
\* <<>> wrapped in a sequence when there is none.
RECURSIVE LastSeedIdPart(_)
LastSeedIdPart(parts) ==
    IF parts = <<>> THEN <<>>
    ELSE IF LooksLikeSeedId(parts[Len(parts)]) THEN <<parts[Len(parts)]>>
    ELSE LastSeedIdPart(SubSeq(parts, 1, Len(parts) - 1))

\* Format 1: <original>_PPSD_<datetime>_NET-STA-LOC-CHA
HyphenFormat(basename) ==
    IF Contains(basename, <<"_", "PPSD", "_">>)
    THEN LET hit == LastSeedIdPart(Split(basename, "_"))
         IN  IF hit = <<>> THEN Unbound
             ELSE Bound(ReplaceAll(hit[1], "-", "."))
    ELSE Unbound

\* Format 2: PPSD_NET.STA.LOC.CHA_<datetime>
PrefixFormat(basename) ==
    IF StartsWith(basename, <<"PPSD", "_">>)
    THEN LET candidate == Split(SubSeq(basename, 3, Len(basename)), "_")[1]
         IN  IF CountOf(candidate, ".") >= 2 THEN Bound(candidate) ELSE Unbound
    ELSE Unbound

\* Fault variant of ExtractSeedIdFromFilename: the prefix format is tried
\* before the hyphen format.
ExtractPrefixFirst(name) ==
    LET basename == StripNpz(name)
    IN  IF PrefixFormat(basename).bound THEN PrefixFormat(basename).value
        ELSE IF HyphenFormat(basename).bound THEN HyphenFormat(basename).value
        ELSE basename

\* _extract_seed_id_from_filename: format 1, then format 2, then the name
\* without its extension.
ExtractSeedIdFromFilename(name) ==
    LET basename == StripNpz(name)
    IN  IF HyphenFormat(basename).bound THEN HyphenFormat(basename).value
        ELSE IF PrefixFormat(basename).bound THEN PrefixFormat(basename).value
        ELSE basename

notExtract == <<cvars, mvars, pvars, gvars, svars, nvars, tvars,
      rvars, kvars>>

InitExtract ==
    /\ ComputeIdle
    /\ MergeIdle
    /\ RunIdle
    /\ typeIdx = 0
    /\ filename \in Filenames(MaxNameSegments)
    /\ extracted = Unbound
    /\ ppc = "Idle"
    /\ plot_config = <<>>
    /\ plot_inventory = "none"
    /\ plot_npz_files = Unbound
    /\ plot_raisedBy = "none"
    /\ gpc = "Idle"
    /\ archive = <<>>
    /\ group_files = <<>>
    /\ npzIdx = 0
    /\ id_groups = <<>>
    /\ resolved = <<>>
    /\ file_stream = <<>>
    /\ streamIdx = 0
    /\ trace_groups = <<>>
    /\ gen_args = <<>>
    /\ generated = Unbound
    /\ tpc = "Idle"
    /\ trace_args = <<>>
    /\ special_handling = NoMode
    /\ metadata = "none"
    /\ ppsd = <<>>
    /\ warned = FALSE
    /\ trace_raised = "none"

\* One call of _extract_seed_id_from_filename.
ExtractSeedId ==
    /\ ~extracted.bound
    /\ extracted' = Bound(ExtractSeedIdFromFilename(filename))
    /\ UNCHANGED filename
    /\ UNCHANGED notExtract

NextExtract == ExtractSeedId

SpecExtract == InitExtract /\ [][NextExtract]_vars

\* ------------------------------------------ filename properties
\* The dotted identities NET.STA.LOC.CHA among the segment shapes.
DottedIds == {seg \in SegmentShapes : CountOf(seg, ".") = 3 /\ CountOf(seg, "-") = 0}

\* The '_'-delimited segments of the name without its extension.
SegmentsOf(name) == Range(Split(StripNpz(name), "_"))

\* The name has the form PPSD_<id>_<suffix>.npz.
HasPrefixForm(name, id) ==
    /\ StartsWith(name, <<"PPSD", "_">> \o id \o <<"_">>)
    /\ name[Len(name)] = ".npz"
    /\ Len(name) > Len(id) + 4

\* C15 as stated: a name of the form PPSD_<NET.STA.LOC.CHA>_<suffix>.npz
\* resolves to exactly NET.STA.LOC.CHA.
C15_PrefixFormResolvesToIdentity ==
    \A id \in DottedIds :
        (extracted.bound /\ HasPrefixForm(filename, id)) => extracted.value = id

\* C16 as stated: the hyphen heuristic answers exactly when some segment of
\* the name is a token of 3 or 4 hyphen-separated parts; the answer is such
\* a token with its hyphens turned into dots, and no token of another number
\* of parts is ever the answer.
C16_HyphenTokenOfThreeOrFourParts ==
    extracted.bound =>
        LET segs == SegmentsOf(filename)
            hits == {seg \in segs : CountOf(seg, "-") >= 1
                                     /\ Len(Split(seg, "-")) \in {3, 4}}
            others == {seg \in segs : CountOf(seg, "-") >= 1
                                       /\ Len(Split(seg, "-")) \notin {3, 4}}
        IN  /\ hits # {} =>
                  \E seg \in hits : extracted.value = ReplaceAll(seg, "-", ".")
            /\ \A seg \in others : extracted.value # ReplaceAll(seg, "-", ".")

\* ------------------------------------- _group_npz_files_by_seed_id
\* File names of the artifacts to group: one in the PPSD_ prefix format, one
\* no heuristic parses, one in the prefix format naming another station.
GroupNames ==
    { <<"PPSD", "_", "BJ", ".", "DAX", ".", "00", ".", "BHZ", "_", "20250101", ".npz">>,
      <<"20250101", ".npz">>,
      <<"PPSD", "_", "BJ", ".", "BBS", ".", "00", ".", "BHZ", "_", "20250101", ".npz">> }

\* The values embedded in an artifact that has them.
EmbeddedFields ==
    [id        |-> <<"BJ", ".", "BBS", ".", "00", ".", "BHZ">>,
     _network  |-> <<"BJ">>,
     _station  |-> <<"BBS">>,
     _location |-> <<"10">>,
     _channel  |-> <<"BHZ">>]

\* The sets of embedded fields an artifact can hold.
FieldSets ==
    { {},
      {"id"},
      {"id", "_network", "_station", "_location", "_channel"},
      {"_network", "_station"},
      {"_network", "_station", "_location", "_channel"} }

\* What np.load finds: a file it cannot read, a file holding some fields,
\* or a file whose 'id' field is there but cannot be read as a value.
NpzContents ==
    [readable : {FALSE}, fields : {{}}, field_raises : {FALSE}]
    \cup [readable : {TRUE}, fields : FieldSets, field_raises : {FALSE}]
    \cup [readable : {TRUE}, fields : {{"id"}}, field_raises : {TRUE}]

\* The metadata of the artifact holds an identity that can be read.
YieldsIdentity(c) ==
    /\ c.readable
    /\ ~c.field_raises
    /\ ("id" \in c.fields \/ {"_network", "_station"} \subseteq c.fields)

\* The artifacts to group: any file name when the identity has to come from
\* it, and a file name that disagrees with the metadata when the metadata
\* holds the identity.
GroupedArtifacts ==
    {a \in [name : GroupNames, content : NpzContents] :
        YieldsIdentity(a.content) =>
            a.name = <<"PPSD", "_", "BJ", ".", "DAX", ".", "00", ".", "BHZ",
                       "_", "20250101", ".npz">>}

\* f"{network}.{station}.{location}.{channel}", location defaulting to ""
\* and channel to "XXX"
NetworkStationId(fields) ==
    EmbeddedFields._network \o <<".">> \o EmbeddedFields._station \o <<".">>
    \o (IF "_location" \in fields THEN EmbeddedFields._location ELSE <<>>)
    \o <<".">>
    \o (IF "_channel" \in fields THEN EmbeddedFields._channel ELSE <<"XXX">>)

\* The inner try block raises: np.load fails, or reading a field fails.
EmbeddedReadRaises(a) == ~a.content.readable \/ a.content.field_raises

\* Fault variant of ResolveIdentity: the file name is preferred to the
\* embedded fields whenever a heuristic parses it.
ResolveIdentityNameFirst(a) ==
    LET basename == StripNpz(a.name)
    IN  IF HyphenFormat(basename).bound \/ PrefixFormat(basename).bound
        THEN [via |-> "filename", seed_id |-> ExtractSeedIdFromFilename(a.name)]
        ELSE IF EmbeddedReadRaises(a)
        THEN [via |-> "fallback", seed_id |-> ExtractSeedIdFromFilename(a.name)]
        ELSE IF "id" \in a.content.fields
        THEN [via |-> "id", seed_id |-> EmbeddedFields.id]
        ELSE IF {"_network", "_station"} \subseteq a.content.fields
        THEN [via |-> "network_station",
              seed_id |-> NetworkStationId(a.content.fields)]
        ELSE [via |-> "filename", seed_id |-> ExtractSeedIdFromFilename(a.name)]

\* The identity of one artifact: the inner try/except of the loop body.
ResolveIdentity(a) ==
    IF EmbeddedReadRaises(a)
    THEN [via |-> "fallback", seed_id |-> ExtractSeedIdFromFilename(a.name)]
    ELSE IF "id" \in a.content.fields
    THEN [via |-> "id", seed_id |-> EmbeddedFields.id]
    ELSE IF {"_network", "_station"} \subseteq a.content.fields
    THEN [via |-> "network_station",
          seed_id |-> NetworkStationId(a.content.fields)]
    ELSE [via |-> "filename", seed_id |-> ExtractSeedIdFromFilename(a.name)]

notGroup == <<cvars, mvars, pvars, evars, svars, nvars, tvars,
      rvars, kvars>>

InitGroup ==
    /\ ComputeIdle
    /\ MergeIdle
    /\ RunIdle
    /\ typeIdx = 0
    /\ gpc = "Loop"
    /\ \E k \in 1..MaxArtifacts :
          /\ group_files = [i \in 1..k |-> i]
          /\ archive \in [1..k -> GroupedArtifacts]
    /\ npzIdx = 1
    /\ id_groups = <<>>
    /\ resolved = <<>>
    /\ ppc = "Idle"
    /\ plot_config = <<>>
    /\ plot_inventory = "none"
    /\ plot_npz_files = Unbound
    /\ plot_raisedBy = "none"
    /\ filename = <<>>
    /\ extracted = Unbound
    /\ file_stream = <<>>
    /\ streamIdx = 0
    /\ trace_groups = <<>>
    /\ gen_args = <<>>
    /\ generated = Unbound
    /\ tpc = "Idle"
    /\ trace_args = <<>>
    /\ special_handling = NoMode
    /\ metadata = "none"
    /\ ppsd = <<>>
    /\ warned = FALSE
    /\ trace_raised = "none"

AtNpzFile == gpc = "Loop" /\ npzIdx <= Len(group_files)

\* The rest of the loop body once seed_id is known: the artifact is
\* appended to its group, and the loop moves on.
PlaceInGroup(r) ==
    /\ id_groups' = AddToSeedGroups(id_groups, group_files[npzIdx], r.seed_id)
    /\ resolved' = Append(resolved,
          [file |-> group_files[npzIdx], via |-> r.via, seed_id |-> r.seed_id])
    /\ npzIdx' = npzIdx + 1
    /\ UNCHANGED <<gpc, archive, group_files>>
    /\ UNCHANGED notGroup

\* Fault variant of ResolveAfterReadFailure: the artifact is left out.
ResolveAfterReadFailureDrops ==
    /\ AtNpzFile
    /\ EmbeddedReadRaises(archive[group_files[npzIdx]])
    /\ npzIdx' = npzIdx + 1
    /\ UNCHANGED <<gpc, archive, group_files, id_groups, resolved>>
    /\ UNCHANGED notGroup

\* Reading the embedded metadata raises: the identity comes from the
\* file name.
ResolveAfterReadFailure ==
    /\ AtNpzFile
    /\ EmbeddedReadRaises(archive[group_files[npzIdx]])
    /\ PlaceInGroup(ResolveIdentity(archive[group_files[npzIdx]]))

\* The embedded metadata is read: 'id', or network/station with the
\* location and channel defaults, or else the file name.
ResolveFromMetadata ==
    /\ AtNpzFile
    /\ ~EmbeddedReadRaises(archive[group_files[npzIdx]])
    /\ PlaceInGroup(ResolveIdentity(archive[group_files[npzIdx]]))

\* The loop is exhausted: seed_groups is returned.  (The handler around
\* the loop body, which would file the artifact under its own name, is
\* reached only if the file-name parsing itself raises, which it does not
\* for a string.)
GroupingDone ==
    /\ gpc = "Loop"
    /\ npzIdx > Len(group_files)
    /\ gpc' = "Done"
    /\ UNCHANGED <<archive, group_files, npzIdx, id_groups, resolved>>
    /\ UNCHANGED notGroup

NextGroup ==
    \/ ResolveAfterReadFailure
    \/ ResolveFromMetadata
    \/ GroupingDone

SpecGroup == InitGroup /\ [][NextGroup]_vars

\* ------------------------------------------ grouping properties
\* The identity sources in their order of preference, each bound when it
\* yields an identity: the embedded id, the embedded network and station
\* (location defaulting to empty, channel to XXX), the file-name
\* heuristics, the file name without its extension.
Candidates(a) ==
    << IF "id" \in a.content.fields
       THEN Bound(EmbeddedFields.id) ELSE Unbound,
       IF "_network" \in a.content.fields /\ "_station" \in a.content.fields
       THEN Bound(<<"BJ", ".", "BBS", ".">>
                  \o (IF "_location" \in a.content.fields THEN <<"10">> ELSE <<>>)
                  \o <<".">>
                  \o (IF "_channel" \in a.content.fields THEN <<"BHZ">> ELSE <<"XXX">>))
       ELSE Unbound,
       IF HyphenFormat(StripNpz(a.name)).bound
       THEN HyphenFormat(StripNpz(a.name)) ELSE PrefixFormat(StripNpz(a.name)),
       Bound(StripNpz(a.name)) >>

\* The first candidate from position lo on that is bound.
FirstSuccess(cs, lo) ==
    cs[CHOOSE i \in lo..Len(cs) : cs[i].bound /\ \A j \in lo..(i - 1) : ~cs[j].bound].value

\* The artifact f is in the group of identity seed.
GroupedUnder(f, seed) ==
    \E k \in 1..Len(id_groups) :
        /\ id_groups[k].seed_id = seed
        /\ f \in Range(id_groups[k].file_list)

\* C12: an artifact whose embedded metadata is read gets the identity of the
\* first source that yields one, in the order id, network/station (with the
\* location and channel defaults), file-name heuristics, bare file name, and
\* is grouped under it; an embedded id wins over what the file name says.
C12_FirstSuccessWins ==
    \A i \in 1..Len(resolved) :
        LET a == archive[resolved[i].file]
        IN  ~EmbeddedReadRaises(a) =>
                /\ resolved[i].seed_id = FirstSuccess(Candidates(a), 1)
                /\ GroupedUnder(resolved[i].file, FirstSuccess(Candidates(a), 1))
                /\ "id" \in a.content.fields =>
                      GroupedUnder(resolved[i].file, EmbeddedFields.id)

\* An artifact with an embedded id whose file name parses to another
\* identity is grouped under the embedded one, and an artifact holding only
\* network and station under BJ.BBS..XXX.
C12_Witness ==
    /\ gpc = "Done"
    /\ \E i, j \in 1..Len(resolved) :
          /\ resolved[i].via = "id"
          /\ ExtractSeedIdFromFilename(archive[resolved[i].file].name)
                = <<"BJ", ".", "DAX", ".", "00", ".", "BHZ">>
          /\ GroupedUnder(resolved[i].file, <<"BJ", ".", "BBS", ".", "00", ".", "BHZ">>)
          /\ ~GroupedUnder(resolved[i].file, <<"BJ", ".", "DAX", ".", "00", ".", "BHZ">>)
          /\ archive[resolved[j].file].content.fields = {"_network", "_station"}
          /\ GroupedUnder(resolved[j].file, <<"BJ", ".", "BBS", ".", ".", "XXX">>)

\* C13: an artifact whose embedded metadata cannot be read gets the identity
\* the file name gives and is placed in a group; the loop goes on (every
\* artifact met so far has been placed, in order), and the identity of every
\* artifact depends on that artifact alone.
C13_ReadFailureFallsBackToFilename ==
    /\ gpc \in {"Loop", "Done"}
    /\ Len(resolved) = npzIdx - 1
    /\ \A i \in 1..Len(resolved) :
          /\ resolved[i].file = group_files[i]
          /\ GroupedUnder(resolved[i].file, resolved[i].seed_id)
          /\ EmbeddedReadRaises(archive[resolved[i].file]) =>
                resolved[i].seed_id
                    = FirstSuccess(Candidates(archive[resolved[i].file]), 3)
    /\ \A i, j \in 1..Len(resolved) :
          archive[resolved[i].file] = archive[resolved[j].file] =>
              resolved[i].seed_id = resolved[j].seed_id
    /\ gpc = "Done" => Len(resolved) = Len(group_files)

\* An unreadable artifact between two readable ones: it is grouped under the
\* identity its file name gives, and the artifact after it by its embedded id.
C13_Witness ==
    /\ gpc = "Done"
    /\ Len(resolved) = 3
    /\ resolved[1].via = "network_station"
    /\ ~archive[resolved[2].file].content.readable
    /\ resolved[2].seed_id = <<"BJ", ".", "DAX", ".", "00", ".", "BHZ">>
    /\ GroupedUnder(resolved[2].file, <<"BJ", ".", "DAX", ".", "00", ".", "BHZ">>)
    /\ resolved[3].via = "id"

\* The artifacts the loop has handled.
Handled == {group_files[i] : i \in 1..(npzIdx - 1)}

\* The places (group, position) at which the artifact f is filed.
PlacesOf(f) ==
    {p \in (1..Len(id_groups)) \X (1..MaxArtifacts + 1) :
        /\ p[2] <= Len(id_groups[p[1]].file_list)
        /\ id_groups[p[1]].file_list[p[2]] = f}

IsPartition ==
    /\ \A k, l \in 1..Len(id_groups) :
          k # l => id_groups[k].seed_id # id_groups[l].seed_id
    /\ \A k \in 1..Len(id_groups) :
          /\ id_groups[k].file_list # <<>>
          /\ Range(id_groups[k].file_list) \subseteq Handled
    /\ \A f \in Handled : Cardinality(PlacesOf(f)) = 1
    /\ gpc = "Done" => Handled = Range(group_files)

\* Every group stays, under its identity, with the artifacts it had.
GroupsKept ==
    /\ Len(id_groups') >= Len(id_groups)
    /\ \A k \in 1..Len(id_groups) :
          /\ id_groups'[k].seed_id = id_groups[k].seed_id
          /\ Len(id_groups'[k].file_list) >= Len(id_groups[k].file_list)
          /\ SubSeq(id_groups'[k].file_list, 1, Len(id_groups[k].file_list))
                = id_groups[k].file_list

\* C14: whatever fails to be read, the groups partition the artifacts
\* handled so far (each is in exactly one group, exactly once), the returned
\* mapping partitions the input, and no step removes or replaces an artifact
\* already placed.
C14_GroupsPartitionInput ==
    /\ []IsPartition
    /\ [][GroupsKept]_vars

\* Three artifacts grouped, one of them unreadable: two share a group and
\* the third has its own.
C14_Witness ==
    /\ gpc = "Done"
    /\ Len(group_files) = 3
    /\ Len(id_groups) = 2
    /\ Len(id_groups[1].file_list) = 2
    /\ \E i \in 1..3 : resolved[i].via = "fallback"

\* ------------------------------- channel grouping of one file
\* Most traces in the file whose grouping is followed trace by trace.
MaxStreamTraces == 4

notStream == <<cvars, mvars, pvars, gvars, evars, nvars, tvars,
      rvars, kvars>>

InitChannelGroups ==
    /\ ComputeIdle
    /\ MergeIdle
    /\ RunIdle
    /\ typeIdx = 0
    /\ \E chans \in SeqsOf(Channels, 1, MaxStreamTraces) :
          file_stream = MakeStream(chans)
    /\ streamIdx = 1
    /\ trace_groups = <<>>
    /\ ppc = "Idle"
    /\ plot_config = <<>>
    /\ plot_inventory = "none"
    /\ plot_npz_files = Unbound
    /\ plot_raisedBy = "none"
    /\ gpc = "Idle"
    /\ archive = <<>>
    /\ group_files = <<>>
    /\ npzIdx = 0
    /\ id_groups = <<>>
    /\ resolved = <<>>
    /\ filename = <<>>
    /\ extracted = Unbound
    /\ gen_args = <<>>
    /\ generated = Unbound
    /\ tpc = "Idle"
    /\ trace_args = <<>>
    /\ special_handling = NoMode
    /\ metadata = "none"
    /\ ppsd = <<>>
    /\ warned = FALSE
    /\ trace_raised = "none"

\* One pass of `for trace in stream`: the trace is appended to the list of
\* its trace_id, made when absent.
GroupTrace ==
    /\ streamIdx <= Len(file_stream)
    /\ trace_groups' = AddToGroups(trace_groups, file_stream[streamIdx])
    /\ streamIdx' = streamIdx + 1
    /\ UNCHANGED file_stream
    /\ UNCHANGED notStream

NextChannelGroups == GroupTrace

SpecChannelGroups == InitChannelGroups /\ [][NextChannelGroups]_vars

\* The traces of the file grouped so far.
GroupedSoFar == {file_stream[i] : i \in 1..(streamIdx - 1)}

\* The (group, position) places at which the trace tr is held.
HoldersOf(tr) ==
    {p \in (1..Len(trace_groups)) \X (1..MaxStreamTraces + 1) :
        /\ p[2] <= Len(trace_groups[p[1]].traces)
        /\ trace_groups[p[1]].traces[p[2]] = tr}

\* C17: the groups partition the traces of the file by channel identity:
\* every trace grouped so far is in exactly one group, once; the traces of a
\* group carry the identity of the group, and no two groups have the same
\* identity; within a group the traces are in their order in the file; and
\* the grouping of the whole file is the one the compute batch works on.
C17_ChannelGroupsPartitionFile ==
    /\ \A tr \in GroupedSoFar : Cardinality(HoldersOf(tr)) = 1
    /\ \A k \in 1..Len(trace_groups) :
          /\ trace_groups[k].traces # <<>>
          /\ \A i \in 1..Len(trace_groups[k].traces) :
                /\ trace_groups[k].traces[i] \in GroupedSoFar
                /\ trace_groups[k].traces[i].chan = trace_groups[k].id
          /\ \A i, j \in 1..Len(trace_groups[k].traces) :
                i < j => trace_groups[k].traces[i].segs[1]
                             < trace_groups[k].traces[j].segs[1]
    /\ \A k, l \in 1..Len(trace_groups) :
          k # l => trace_groups[k].id # trace_groups[l].id
    /\ streamIdx > Len(file_stream) =>
          trace_groups = GroupByChannel(file_stream, <<>>)

\* A file whose first and third traces are of one channel and whose second
\* is of another: two groups, the first holding traces 1 and 3 in that order.
C17_Witness ==
    /\ Len(file_stream) = 3
    /\ streamIdx = 4
    /\ file_stream[1].chan = file_stream[3].chan
    /\ file_stream[1].chan # file_stream[2].chan
    /\ Len(trace_groups) = 2
    /\ trace_groups[1].traces = <<file_stream[1], file_stream[3]>>
    /\ trace_groups[2].traces = <<file_stream[2]>>

\* ------------------------------------------------ _generate_filename
\* A pattern is the sequence of its pieces: literal text and "{key}"
\* placeholders.  A generated name is the sequence of the pieces after
\* substitution.

\* plot_type=None
NoPlotType == "<None>"

Placeholder(key) == "{" \o key \o "}"

\* The names of the time fields, in the order the replacements are made.
TimeKeys ==
    <<"datetime", "year", "month", "day", "hour", "minute", "second", "julday">>

IdentityKeys == <<"network", "station", "location", "channel">>

\* '_'-joined placeholders of the keys ks, each key prefixed.
RECURSIVE PlaceholderRun(_, _)
PlaceholderRun(prefix, ks) ==
    IF ks = <<>> THEN <<>>
    ELSE <<"_", Placeholder(prefix \o Head(ks))>> \o PlaceholderRun(prefix, Tail(ks))

\* A pattern holding every placeholder of the identity fields, of the
\* start_* and end_* time fields and of the legacy aliases.
FullPattern ==
    <<"PPSD_", "{network}", ".", "{station}", ".", "{location}", ".", "{channel}">>
    \o PlaceholderRun("start_", TimeKeys)
    \o PlaceholderRun("end_", TimeKeys)
    \o PlaceholderRun("", TimeKeys)
    \o <<".npz">>

\* The patterns given: none, the full one, one with the plot kind, one
\* with a placeholder that is not supported.
Patterns ==
    { <<>>,
      FullPattern,
      <<"{plot_type}", "_", "{datetime}", ".png">>,
      <<"PPSD_", "{sensor}", "_", "{end_julday}", ".npz">> }

\* The metadata dict: the four identity fields (the location code may be
\* empty), or a dict lacking some of them.
Metadatas ==
    { [network |-> "BJ", station |-> "DAX", location |-> "00", channel |-> "BHZ"],
      [network |-> "BJ", station |-> "DAX", location |-> "", channel |-> "BHN"],
      [network |-> "BJ"] }

DateTimes ==
    [year : {2024, 2025}, month : {1, 3, 12}, day : {1, 31},
     hour : {0, 23}, minute : {5}, second : {0, 59}]

\* datetime.now() at the time of the call
WallClock ==
    [year |-> 2026, month |-> 11, day |-> 1, hour |-> 12, minute |-> 30,
     second |-> 15]

\* metadata.get(key, default)
Get(md, key, default) == IF key \in DOMAIN md THEN md[key] ELSE default

\* f"{n:02d}" and f"{n:03d}"
Pad2(n) == IF n < 10 THEN "0" \o ToString(n) ELSE ToString(n)

Pad3(n) == IF n < 100 THEN "0" \o Pad2(n) ELSE ToString(n)

IsLeap(y) == (y % 4 = 0 /\ y % 100 # 0) \/ y % 400 = 0

\* timetuple().tm_yday
DayOfYear(dt) ==
    <<0, 31, 59, 90, 120, 151, 181, 212, 243, 273, 304, 334>>[dt.month]
    + dt.day
    + (IF IsLeap(dt.year) /\ dt.month > 2 THEN 1 ELSE 0)

\* strftime('%Y%m%d%H%M')
Strftime(dt) ==
    ToString(dt.year) \o Pad2(dt.month) \o Pad2(dt.day)
    \o Pad2(dt.hour) \o Pad2(dt.minute)

\* The eight time entries of the replacements dict under a key prefix.
TimeValues(prefix, dt) ==
    << <<prefix \o "datetime", Strftime(dt)>>,
       <<prefix \o "year", ToString(dt.year)>>,
       <<prefix \o "month", Pad2(dt.month)>>,
       <<prefix \o "day", Pad2(dt.day)>>,
       <<prefix \o "hour", Pad2(dt.hour)>>,
       <<prefix \o "minute", Pad2(dt.minute)>>,
       <<prefix \o "second", Pad2(dt.second)>>,
       <<prefix \o "julday", Pad3(DayOfYear(dt))>> >>

IdentityValues(md) ==
    << <<"network", Get(md, "network", "XX")>>,
       <<"station", Get(md, "station", "XXXX")>>,
       <<"location", Get(md, "location", "")>>,
       <<"channel", Get(md, "channel", "XXX")>> >>

\* Fault variant of Replacements: the legacy aliases follow the end time.
ReplacementsLegacyFromEnd(md, start_dt, end_dt, plot_type) ==
    IdentityValues(md)
    \o TimeValues("start_", start_dt)
    \o TimeValues("end_", end_dt)
    \o TimeValues("", end_dt)
    \o (IF plot_type # NoPlotType THEN << <<"plot_type", plot_type>> >> ELSE <<>>)

\* The replacements dict, in insertion order; plot_type is added when given.
Replacements(md, start_dt, end_dt, plot_type) ==
    IdentityValues(md)
    \o TimeValues("start_", start_dt)
    \o TimeValues("end_", end_dt)
    \o TimeValues("", start_dt)
    \o (IF plot_type # NoPlotType THEN << <<"plot_type", plot_type>> >> ELSE <<>>)

\* for key, value in replacements.items(): filename.replace('{key}', value)
RECURSIVE Substitute(_, _)
Substitute(pieces, reps) ==
    IF reps = <<>> THEN pieces
    ELSE Substitute(ReplaceAll(pieces, Placeholder(Head(reps)[1]), Head(reps)[2]),
                    Tail(reps))

\* The default names used when no pattern is given.
DefaultName(md, plot_type) ==
    IF plot_type # NoPlotType
    THEN <<plot_type, "_", Get(md, "network", "XX"), ".", Get(md, "station", "XXXX"),
           ".", Get(md, "location", ""), ".", Get(md, "channel", "XXX"), ".png">>
    ELSE <<"PPSD_", Get(md, "network", "XX"), ".", Get(md, "station", "XXXX"),
           ".", Get(md, "location", ""), ".", Get(md, "channel", "XXX"), ".npz">>

\* _generate_filename
GenerateFilename(a) ==
    IF a.pattern = <<>> THEN DefaultName(a.metadata, a.plot_type)
    ELSE LET start_dt == IF a.data_starttime.bound
                         THEN a.data_starttime.value ELSE a.now
             end_dt == IF a.data_endtime.bound
                       THEN a.data_endtime.value ELSE start_dt
         IN  Substitute(a.pattern,
                        Replacements(a.metadata, start_dt, end_dt, a.plot_type))

\* The data end times given with a start time.
EndTimes ==
    { [year |-> 2025, month |-> 12, day |-> 31, hour |-> 23, minute |-> 5,
       second |-> 59],
      [year |-> 2024, month |-> 3, day |-> 1, hour |-> 0, minute |-> 5,
       second |-> 0] }

GenerateArgs ==
    [pattern : Patterns, metadata : Metadatas,
     plot_type : {NoPlotType, "standard"},
     data_starttime : {Unbound} \cup {Bound(dt) : dt \in DateTimes},
     data_endtime : {Unbound} \cup {Bound(dt) : dt \in EndTimes},
     now : {WallClock}]

notGenerate == <<cvars, mvars, pvars, gvars, evars, svars, tvars,
      rvars, kvars>>

InitGenerate ==
    /\ ComputeIdle
    /\ MergeIdle
    /\ RunIdle
    /\ typeIdx = 0
    /\ gen_args \in GenerateArgs
    /\ generated = Unbound
    /\ ppc = "Idle"
    /\ plot_config = <<>>
    /\ plot_inventory = "none"
    /\ plot_npz_files = Unbound
    /\ plot_raisedBy = "none"
    /\ gpc = "Idle"
    /\ archive = <<>>
    /\ group_files = <<>>
    /\ npzIdx = 0
    /\ id_groups = <<>>
    /\ resolved = <<>>
    /\ filename = <<>>
    /\ extracted = Unbound
    /\ file_stream = <<>>
    /\ streamIdx = 0
    /\ trace_groups = <<>>
    /\ tpc = "Idle"
    /\ trace_args = <<>>
    /\ special_handling = NoMode
    /\ metadata = "none"
    /\ ppsd = <<>>
    /\ warned = FALSE
    /\ trace_raised = "none"

\* One call of _generate_filename.
GenerateName ==
    /\ ~generated.bound
    /\ generated' = Bound(GenerateFilename(gen_args))
    /\ UNCHANGED gen_args
    /\ UNCHANGED notGenerate

NextGenerate == GenerateName

SpecGenerate == InitGenerate /\ [][NextGenerate]_vars

\* ------------------------------------------ naming properties
\* The generated name as one string.
RECURSIVE Joined(_)
Joined(pieces) ==
    IF pieces = <<>> THEN "" ELSE Head(pieces) \o Joined(Tail(pieces))

\* Every "{key}" token of a supported key, and of plot_type.
SupportedTokens ==
    {Placeholder(IdentityKeys[i]) : i \in 1..Len(IdentityKeys)}
    \cup {Placeholder(pre \o TimeKeys[i]) :
              pre \in {"start_", "end_", ""}, i \in 1..Len(TimeKeys)}
    \cup {Placeholder("plot_type")}

\* The value expected in place of the token tok, taken from the data's own
\* start time s and end time e and from the identity md.
ExpectedValue(tok, md, s, e) ==
    CASE tok = "{network}" -> md.network
      [] tok = "{station}" -> md.station
      [] tok = "{location}" -> md.location
      [] tok = "{channel}" -> md.channel
      [] tok \in {"{start_datetime}", "{datetime}"} -> Strftime(s)
      [] tok \in {"{start_year}", "{year}"} -> ToString(s.year)
      [] tok \in {"{start_month}", "{month}"} -> Pad2(s.month)
      [] tok \in {"{start_day}", "{day}"} -> Pad2(s.day)
      [] tok \in {"{start_hour}", "{hour}"} -> Pad2(s.hour)
      [] tok \in {"{start_minute}", "{minute}"} -> Pad2(s.minute)
      [] tok \in {"{start_second}", "{second}"} -> Pad2(s.second)
      [] tok \in {"{start_julday}", "{julday}"} -> Pad3(DayOfYear(s))
      [] tok = "{end_datetime}" -> Strftime(e)
      [] tok = "{end_year}" -> ToString(e.year)
      [] tok = "{end_month}" -> Pad2(e.month)
      [] tok = "{end_day}" -> Pad2(e.day)
      [] tok = "{end_hour}" -> Pad2(e.hour)
      [] tok = "{end_minute}" -> Pad2(e.minute)
      [] tok = "{end_second}" -> Pad2(e.second)
      [] tok = "{end_julday}" -> Pad3(DayOfYear(e))
      [] OTHER -> tok

\* C19: for the pattern holding every supported placeholder, a full
\* identity and a given data start and end time, every placeholder of the
\* generated name is replaced by its value from the data's start and end
\* times (the legacy aliases by the start-time values), the literal text is
\* kept, and no "{...}" token is left.
C19_FullPatternFullySubstituted ==
    (/\ generated.bound
     /\ gen_args.pattern = FullPattern
     /\ DOMAIN gen_args.metadata = Range(IdentityKeys)
     /\ gen_args.data_starttime.bound
     /\ gen_args.data_endtime.bound) =>
        /\ Len(generated.value) = Len(FullPattern)
        /\ \A i \in 1..Len(FullPattern) :
              /\ generated.value[i] =
                    ExpectedValue(FullPattern[i], gen_args.metadata,
                                  gen_args.data_starttime.value,
                                  gen_args.data_endtime.value)
              /\ generated.value[i] \notin SupportedTokens

\* The name generated for BJ.DAX.00.BHZ from data starting 2024-03-01
\* 00:05:59 (day 61 of a leap year) and ending 2025-12-31 23:05:59.
C19_Witness ==
    /\ generated.bound
    /\ gen_args.pattern = FullPattern
    /\ gen_args.data_starttime.bound
    /\ gen_args.data_endtime.bound
    /\ Joined(generated.value) =
          "PPSD_BJ.DAX.00.BHZ"
          \o "_202403010005_2024_03_01_00_05_59_061"
          \o "_202512312305_2025_12_31_23_05_59_365"
          \o "_202403010005_2024_03_01_00_05_59_061"
          \o ".npz"

\* ------------------------------- default artifact name of the batch
\* Path(original_file).stem: the files of one batch are numbered, and the
\* numbered files have distinct base names.
Stem(original_file) == "file" \o ToString(original_file)

\* npz_filename = f"PPSD_{original_filename}.npz", used when
\* output_npz_filename_pattern is not set.
DefaultNpzName(original_file) == <<"PPSD_", Stem(original_file), ".npz">>

\* npz_path of a saved artifact of the batch, which runs without a pattern.
NpzPath(w) == <<"output_dir", "/">> \o DefaultNpzName(w.file)

\* C18 as stated: without a filename pattern, two artifacts saved for
\* different (channel, source file) compute units never have the same path.
C18_OnePathPerComputeUnit ==
    \A i, j \in 1..Len(written) :
        (written[i].chan # written[j].chan \/ written[i].file # written[j].file)
            => NpzPath(written[i]) # NpzPath(written[j])

\* --------------------- _process_single_merged_trace_to_npz, by step
\* args['special_handling']: absent or None, the strings that stand for
\* None, the two modes, and strings that are none of these (one in another
\* letter case of a string that stands for None, one in another letter case
\* of a mode, one unrelated).
ModeValues ==
    {NoMode, "None", "none", "null", "ringlaser", "hydrophone",
     "NONE", "Hydrophone", "seismometer"}

\* The variants of the mode selector the procedure knows.
RecognisedModes == {NoMode, "None", "none", "null", "ringlaser", "hydrophone"}

TraceArgs ==
    [special_handling : ModeValues, sensitivity : BOOLEAN, chan : Channels]

\* if special_handling == "None" or ... == "none" or ... == "null": None
NormaliseMode(v) == IF v \in {"None", "none", "null"} THEN NoMode ELSE v

\* special_handling.lower() inside PPSD.__init__
LowerMode(v) == IF v = "Hydrophone" THEN "hydrophone" ELSE v

\* PPSD.__init__ takes None and, in any letter case, 'ringlaser' and
\* 'hydrophone'; it raises ValueError for any other value.
PPSDAcceptsMode(v) ==
    v = NoMode \/ LowerMode(v) \in {"ringlaser", "hydrophone"}

notTrace == <<cvars, mvars, pvars, gvars, evars, svars, nvars,
      rvars, kvars>>

InitTrace ==
    /\ ComputeIdle
    /\ MergeIdle
    /\ RunIdle
    /\ typeIdx = 0
    /\ tpc = "Start"
    /\ trace_args \in TraceArgs
    /\ special_handling = trace_args.special_handling
    /\ metadata = "none"
    /\ ppsd = <<>>
    /\ warned = FALSE
    /\ trace_raised = "none"
    /\ ppc = "Idle"
    /\ plot_config = <<>>
    /\ plot_inventory = "none"
    /\ plot_npz_files = Unbound
    /\ plot_raisedBy = "none"
    /\ gpc = "Idle"
    /\ archive = <<>>
    /\ group_files = <<>>
    /\ npzIdx = 0
    /\ id_groups = <<>>
    /\ resolved = <<>>
    /\ filename = <<>>
    /\ extracted = Unbound
    /\ file_stream = <<>>
    /\ streamIdx = 0
    /\ trace_groups = <<>>
    /\ gen_args = <<>>
    /\ generated = Unbound

TraceRaise(where) ==
    /\ tpc' = "Raised"
    /\ trace_raised' = where

\* special_handling = args.get('special_handling', None), the strings that
\* stand for None turned into None; ppsd_params takes the result.
ReadMode ==
    /\ tpc = "Start"
    /\ special_handling' = NormaliseMode(trace_args.special_handling)
    /\ tpc' = "Metadata"
    /\ UNCHANGED <<trace_args, metadata, ppsd, warned, trace_raised>>
    /\ UNCHANGED notTrace

\* Fault variant of PrepareMetadata: a sensitivity that cannot be resolved
\* is logged and the inventory is used in its place.
PrepareMetadataSwallows ==
    /\ tpc = "Metadata"
    /\ metadata' = IF special_handling = "ringlaser" /\ trace_args.sensitivity
                   THEN "sensitivity" ELSE "inventory"
    /\ warned' = (special_handling \notin {"ringlaser", "hydrophone", NoMode})
    /\ tpc' = "Construct"
    /\ UNCHANGED <<trace_args, special_handling, ppsd, trace_raised>>
    /\ UNCHANGED notTrace

\* The metadata for the mode: the sensitivity for ringlaser (the call
\* raises when it cannot be extracted), the inventory for hydrophone and
\* for None, and the inventory with a warning for anything else.
PrepareMetadata ==
    /\ tpc = "Metadata"
    /\ IF special_handling = "ringlaser"
       THEN IF trace_args.sensitivity
            THEN /\ metadata' = "sensitivity"
                 /\ tpc' = "Construct"
                 /\ UNCHANGED <<warned, trace_raised>>
            ELSE /\ TraceRaise("sensitivity")
                 /\ UNCHANGED <<metadata, warned>>
       ELSE /\ metadata' = "inventory"
            /\ warned' = (special_handling \notin {"hydrophone", NoMode})
            /\ tpc' = "Construct"
            /\ UNCHANGED trace_raised
    /\ UNCHANGED <<trace_args, special_handling, ppsd>>
    /\ UNCHANGED notTrace

\* ppsd = PPSD(trace.stats, metadata=metadata, **ppsd_params), where
\* ppsd_params['special_handling'] is the special_handling local; a failure
\* is logged and re-raised.
ConstructPPSD ==
    /\ tpc = "Construct"
    /\ ppsd' = [special_handling |-> special_handling, metadata |-> metadata,
                n |-> 0]
    /\ IF ~PPSDAcceptsMode(special_handling)
       THEN TraceRaise("mode")
       ELSE \E ok \in BOOLEAN :
               IF ok THEN tpc' = "Add" /\ UNCHANGED trace_raised
               ELSE TraceRaise("construct")
    /\ UNCHANGED <<trace_args, special_handling, metadata, warned>>
    /\ UNCHANGED notTrace

\* ppsd.add(trace): returns with n windows added to those the accumulator
\* holds, or raises.
AddTrace ==
    /\ tpc = "Add"
    /\ \/ \E n \in WindowCounts :
             /\ ppsd' = [ppsd EXCEPT !.n = @ + n]
             /\ tpc' = "Save"
             /\ UNCHANGED trace_raised
       \/ TraceRaise("add") /\ UNCHANGED ppsd
    /\ UNCHANGED <<trace_args, special_handling, metadata, warned>>
    /\ UNCHANGED notTrace

\* The artifact is saved when windows were processed: save_npz returns or
\* raises; with no window the call returns without saving.
SaveArtifact ==
    /\ tpc = "Save"
    /\ IF IsEmptyResult(ppsd.n)
       THEN tpc' = "Skipped" /\ UNCHANGED trace_raised
       ELSE \E ok \in BOOLEAN :
               IF ok THEN tpc' = "Saved" /\ UNCHANGED trace_raised
               ELSE TraceRaise("save")
    /\ UNCHANGED <<trace_args, special_handling, metadata, ppsd, warned>>
    /\ UNCHANGED notTrace

NextTrace ==
    \/ ReadMode
    \/ PrepareMetadata
    \/ ConstructPPSD
    \/ AddTrace
    \/ SaveArtifact

SpecTrace == InitTrace /\ [][NextTrace]_vars

\* C20 as stated: a mode string that is none of the recognised variants is
\* treated as the default: the warning is logged, the accumulator is
\* constructed with the default mode and the full station metadata, and the
\* string makes no trace fail.
C20_UnknownModeTreatedAsDefault ==
    trace_args.special_handling \notin RecognisedModes =>
        /\ tpc \notin {"Start", "Metadata"} => warned
        /\ ppsd # <<>> =>
              /\ ppsd.special_handling = NoMode
              /\ ppsd.metadata = "inventory"
        /\ trace_raised # "mode"

\* ------------------- the trace loop of calculate_ppsd, trace by step
\* The traces of one channel group as the gap policy left them.
TraceLists ==
    {[i \in 1..k |-> [chan |-> c, segs |-> <<i>>]] :
        c \in Channels, k \in 1..MaxTraces}

InitTraceLoop ==
    /\ MergeIdle
    /\ RunIdle
    /\ typeIdx = 0
    /\ pc = "TraceLoop"
    /\ config = [mseed_pattern |-> TRUE, inventory_path |-> TRUE,
                 skip_on_gaps |-> TRUE, merge_fill_value |-> NoFill,
                 merge_method |-> 0]
    /\ raisedBy = "none"
    /\ inventory = "loaded"
    /\ mseed_files = <<1>>
    /\ merge_fill_value = NoFill
    /\ fileIdx = 1
    /\ traces_to_process \in TraceLists
    /\ channel_groups = <<[id |-> traces_to_process[1].chan,
                           traces |-> traces_to_process]>>
    /\ groupIdx = 1
    /\ traceIdx = 1
    /\ successful_files = 0
    /\ failed_files = 0
    /\ written = <<>>
    /\ filesRead = <<1>>
    /\ groupsEntered = 1
    /\ fed = <<>>
    /\ mergeCalls = <<>>
    /\ mergeFailed = FALSE
    /\ last = NoResult
    /\ tpc = "Idle"
    /\ trace_args \in {a \in TraceArgs : a.chan = traces_to_process[1].chan}
    /\ special_handling = trace_args.special_handling
    /\ metadata = "none"
    /\ ppsd = <<>>
    /\ warned = FALSE
    /\ trace_raised = "none"
    /\ ppc = "Idle"
    /\ plot_config = <<>>
    /\ plot_inventory = "none"
    /\ plot_npz_files = Unbound
    /\ plot_raisedBy = "none"
    /\ gpc = "Idle"
    /\ archive = <<>>
    /\ group_files = <<>>
    /\ npzIdx = 0
    /\ id_groups = <<>>
    /\ resolved = <<>>
    /\ filename = <<>>
    /\ extracted = Unbound
    /\ file_stream = <<>>
    /\ streamIdx = 0
    /\ trace_groups = <<>>
    /\ gen_args = <<>>
    /\ generated = Unbound

loopFrame ==
    <<pc, config, raisedBy, inventory, mseed_files, merge_fill_value, fileIdx,
      channel_groups, groupIdx, traces_to_process, filesRead, groupsEntered,
      mergeCalls, mergeFailed>>

\* self._process_single_merged_trace_to_npz(trace, inventory, args, ...) is
\* called for the next trace of the list; args is the same for every trace,
\* what the inventory holds for the trace is not.
CallProcessSingle ==
    /\ pc = "TraceLoop"
    /\ tpc = "Idle"
    /\ traceIdx <= Len(traces_to_process)
    /\ \E s \in BOOLEAN :
          trace_args' = [trace_args EXCEPT !.sensitivity = s]
    /\ special_handling' = trace_args.special_handling
    /\ metadata' = "none"
    /\ ppsd' = <<>>
    /\ warned' = FALSE
    /\ trace_raised' = "none"
    /\ tpc' = "Start"
    /\ fed' = Append(fed, traces_to_process[traceIdx])
    /\ UNCHANGED <<traceIdx, successful_files, failed_files, written, last>>
    /\ UNCHANGED loopFrame
    /\ UNCHANGED <<mvars, pvars, gvars, evars, svars, nvars, rvars, kvars>>

\* What the finished call did to the trace.
TraceResult ==
    [trace |-> traces_to_process[traceIdx], file |-> mseed_files[fileIdx],
     constructed |-> ppsd # <<>> /\ trace_raised \notin {"mode", "construct"},
     added |-> tpc \in {"Saved", "Skipped"} \/ trace_raised = "save",
     n |-> IF ppsd # <<>> THEN ppsd.n ELSE 0,
     saved |-> tpc = "Saved",
     raised |-> tpc = "Raised"]

\* The call returned: successful_files += 1; it raised: the handler logs,
\* failed_files += 1, continue.
CountTrace ==
    /\ pc = "TraceLoop"
    /\ tpc \in {"Saved", "Skipped", "Raised"}
    /\ last' = TraceResult
    /\ written' = IF tpc = "Saved" THEN Append(written, Artifact(TraceResult))
                  ELSE written
    /\ successful_files' =
          IF tpc = "Raised" THEN successful_files ELSE successful_files + 1
    /\ failed_files' = IF tpc = "Raised" THEN failed_files + 1 ELSE failed_files
    /\ traceIdx' = traceIdx + 1
    /\ tpc' = "Idle"
    /\ UNCHANGED <<trace_args, special_handling, metadata, ppsd, warned,
                   trace_raised, fed>>
    /\ UNCHANGED loopFrame
    /\ UNCHANGED <<mvars, pvars, gvars, evars, svars, nvars, rvars, kvars>>

NextTraceLoop ==
    \/ CallProcessSingle
    \/ ReadMode
    \/ PrepareMetadata
    \/ ConstructPPSD
    \/ AddTrace
    \/ SaveArtifact
    \/ CountTrace
    \/ EndGroup

SpecTraceLoop == InitTraceLoop /\ [][NextTraceLoop]_vars

\* The sensitivity of the trace in hand could not be resolved in ringlaser
\* mode.
SensitivityFailed ==
    /\ special_handling = "ringlaser"
    /\ ~trace_args.sensitivity
    /\ tpc \notin {"Idle", "Start", "Metadata"}

\* The step that counts a trace whose sensitivity could not be resolved.
CountsSensitivityFailure ==
    (tpc = "Raised" /\ trace_raised = "sensitivity" /\ tpc' = "Idle") =>
        /\ failed_files' = failed_files + 1
        /\ successful_files' = successful_files
        /\ written' = written
        /\ traceIdx' = traceIdx + 1
        /\ pc' = "TraceLoop"
        /\ ~last'.constructed /\ ~last'.added /\ ~last'.saved

\* C21: in ringlaser mode the accumulator is constructed only with a
\* sensitivity resolved beforehand; when the resolution fails the call
\* raises with no accumulator constructed, nothing added and nothing saved,
\* the trace is counted in failed_files and the loop goes on to the next
\* trace.
C21_RinglaserSensitivityFailsLoudly ==
    /\ [](/\ (special_handling = "ringlaser" /\ ppsd # <<>>) =>
                /\ trace_args.sensitivity
                /\ ppsd.metadata = "sensitivity"
          /\ SensitivityFailed =>
                /\ tpc = "Raised"
                /\ trace_raised = "sensitivity"
                /\ ppsd = <<>>
          /\ trace_raised = "sensitivity" =>
                /\ trace_args.special_handling = "ringlaser"
                /\ ppsd = <<>>)
    /\ [][CountsSensitivityFailure]_vars

\* The first of two traces failed for its sensitivity and was counted, and
\* the loop stands at the second trace.
C21_Witness ==
    /\ pc = "TraceLoop"
    /\ tpc = "Idle"
    /\ trace_raised = "sensitivity"
    /\ Len(traces_to_process) = 2
    /\ traceIdx = 2
    /\ failed_files = 1
    /\ successful_files = 0
    /\ written = <<>>

\* ------------------------ calculate_ppsd from the gap parameters on
\* args['merge_fill_value'] in every letter case of the strings that stand
\* for None, next to the values of FillValues.
NoneStrings == {"none", "None", "NONE", "null", "Null", "NULL"}

AllFillValues == FillValues \cup NoneStrings

\* calculate_ppsd after the discovery found one file: the parameters were
\* present, the inventory was read.
InitGapFill ==
    /\ MergeIdle
    /\ ExtraIdle
    /\ RunIdle
    /\ pc = "GapParams"
    /\ config \in [mseed_pattern : {TRUE}, inventory_path : {TRUE},
                   skip_on_gaps : BOOLEAN, merge_fill_value : AllFillValues,
                   merge_method : MergeMethods]
    /\ raisedBy = "none"
    /\ inventory = "loaded"
    /\ mseed_files = <<1>>
    /\ merge_fill_value = config.merge_fill_value
    /\ fileIdx = 0
    /\ channel_groups = <<>>
    /\ groupIdx = 0
    /\ traces_to_process = <<>>
    /\ traceIdx = 0
    /\ successful_files = 0
    /\ failed_files = 0
    /\ written = <<>>
    /\ filesRead = <<>>
    /\ groupsEntered = 0
    /\ fed = <<>>
    /\ mergeCalls = <<>>
    /\ mergeFailed = FALSE
    /\ last = NoResult

NextGapFill ==
    \/ ResolveGapParams
    \/ ReadFileFails
    \/ ReadFile
    \/ ChannelGroupFails
    \/ KeepSegments
    \/ SingleTrace
    \/ MergeSegments
    \/ MergeFails
    \/ ProcessTrace
    \/ EndGroup
    \/ EndFile
    \/ Finish

SpecGapFill == InitGapFill /\ [][NextGapFill]_vars

\* C22: a configured string that reads "none" or "null" in any letter case
\* is None by the time the file loop starts, and is what every
\* Stream.merge call is given; any other configured value reaches
\* Stream.merge as configured when skip_on_gaps is false; no merge is called
\* before the value is resolved.
C22_NoneStringsMeanNoFill ==
    /\ pc = "GapParams" => mergeCalls = <<>>
    /\ pc # "GapParams" =>
          /\ config.merge_fill_value \in NoneStrings =>
                merge_fill_value = NoFill
          /\ (~config.skip_on_gaps /\ config.merge_fill_value \notin NoneStrings) =>
                merge_fill_value = config.merge_fill_value
          /\ \A i \in 1..Len(mergeCalls) :
                /\ ~config.skip_on_gaps
                /\ mergeCalls[i].fill_value =
                      IF config.merge_fill_value \in NoneStrings
                      THEN NoFill ELSE config.merge_fill_value

\* The string "None" was configured and a merge was called without a fill
\* value.
C22_Witness ==
    /\ config.merge_fill_value = "None"
    /\ ~config.skip_on_gaps
    /\ Len(mergeCalls) = 1
    /\ mergeCalls[1].fill_value = NoFill

\* ------------------------ plot_ppsd with the two plotting procedures
\* The plot kinds _draw_plot knows; any other raises ValueError.
SupportedPlotTypes == {"standard", "temporal", "spectrogram"}

\* args['plot_type']: absent, one kind as a string, a list of kinds (one of
\* them not supported).
PlotTypeArgs ==
    { [given |-> "absent", value |-> <<>>],
      [given |-> "str", value |-> <<"temporal">>],
      [given |-> "list", value |-> <<"standard", "heatmap", "temporal">>] }

\* plot_types = args.get('plot_type', ['standard']); a str becomes [str].
PlotTypesOf(a) == IF a.given = "absent" THEN <<"standard">> ELSE a.value

plot_types == PlotTypesOf(plot_config.plot_type)

\* Numbers of *.npz files in the input directory of a plot batch.
BatchNpzCounts == {0, 1, 2, 3}

BatchConfigs ==
    [input_npz_dir : InputDirs, inventory_path : InventoryPaths,
     npz_merge_strategy : BOOLEAN, npz_in_dir : BatchNpzCounts,
     plot_type : PlotTypeArgs]

InitPlotBatch ==
    /\ ComputeIdle
    /\ ppc = "Start"
    /\ plot_config \in BatchConfigs
    /\ plot_inventory = "none"
    /\ plot_npz_files = Unbound
    /\ plot_raisedBy = "none"
    /\ mpc = "Idle"
    /\ npz_files = <<>>
    /\ disk \in [1..plot_config.npz_in_dir -> Artifacts(SeedIds, {0, 10}, {"P3600"})]
    /\ seed_groups = <<>>
    /\ seedIdx = 0
    /\ sorted_files = <<>>
    /\ foldIdx = 0
    /\ merged_ppsd = -1
    /\ folds = <<>>
    /\ mergeLog = <<>>
    /\ rendered = <<>>
    /\ RunIdle
    /\ typeIdx = 0
    /\ gpc = "Idle"
    /\ archive = <<>>
    /\ group_files = <<>>
    /\ npzIdx = 0
    /\ id_groups = <<>>
    /\ resolved = <<>>
    /\ filename = <<>>
    /\ extracted = Unbound
    /\ file_stream = <<>>
    /\ streamIdx = 0
    /\ trace_groups = <<>>
    /\ gen_args = <<>>
    /\ generated = Unbound
    /\ tpc = "Idle"
    /\ trace_args = <<>>
    /\ special_handling = NoMode
    /\ metadata = "none"
    /\ ppsd = <<>>
    /\ warned = FALSE
    /\ trace_raised = "none"

\* What the plotting procedures leave alone.
batchFrame ==
    <<cvars, pvars, evars, svars, nvars, tvars, rvars, gpc, archive,
      group_files, id_groups, resolved, disk>>

\* Fault variant of CallPlotMerged: an only artifact is handed to the
\* one-by-one procedure.
CallPlotMergedUnlessOne ==
    /\ ppc = "Merged"
    /\ mpc = "Idle"
    /\ npz_files' = plot_npz_files.value
    /\ mpc' = IF Len(plot_npz_files.value) = 1 THEN "Files" ELSE "Start"
    /\ npzIdx' = IF Len(plot_npz_files.value) = 1 THEN 1 ELSE npzIdx
    /\ UNCHANGED <<seed_groups, seedIdx, sorted_files, foldIdx, merged_ppsd,
                   folds, mergeLog, rendered, typeIdx>>
    /\ UNCHANGED batchFrame

\* self._plot_merged_npz_files(npz_files, inventory, args, output_dir, config)
CallPlotMerged ==
    /\ ppc = "Merged"
    /\ mpc = "Idle"
    /\ npz_files' = plot_npz_files.value
    /\ mpc' = "Start"
    /\ UNCHANGED <<seed_groups, seedIdx, sorted_files, foldIdx, merged_ppsd,
                   folds, mergeLog, rendered, npzIdx, typeIdx>>
    /\ UNCHANGED batchFrame

\* self._plot_individual_npz_files(npz_files, inventory, args, ...)
CallPlotIndividual ==
    /\ ppc = "Individual"
    /\ mpc = "Idle"
    /\ npz_files' = plot_npz_files.value
    /\ npzIdx' = 1
    /\ mpc' = "Files"
    /\ UNCHANGED <<seed_groups, seedIdx, sorted_files, foldIdx, merged_ppsd,
                   folds, mergeLog, rendered, typeIdx>>
    /\ UNCHANGED batchFrame

AtNpz == mpc = "Files" /\ npzIdx <= Len(npz_files)

\* ppsd = self._load_single_ppsd_from_npz(npz_file, inventory) returns; the
\* accumulator in hand is that of the file alone.
LoadSingle ==
    /\ AtNpz
    /\ ~LoadRaises(disk, npz_files[npzIdx])
    /\ merged_ppsd' = disk[npz_files[npzIdx]].count
    /\ mpc' = "RenderFile"
    /\ UNCHANGED <<npz_files, seed_groups, seedIdx, sorted_files, foldIdx,
                   folds, mergeLog, rendered, npzIdx, typeIdx>>
    /\ UNCHANGED batchFrame

\* The load raises: logged, next file.
LoadSingleFails ==
    /\ AtNpz
    /\ LoadRaises(disk, npz_files[npzIdx])
    /\ npzIdx' = npzIdx + 1
    /\ UNCHANGED <<mpc, npz_files, seed_groups, seedIdx, sorted_files, foldIdx,
                   merged_ppsd, folds, mergeLog, rendered, typeIdx>>
    /\ UNCHANGED batchFrame

\* _create_plot and _create_merged_plot_for_seed for one plot kind: return
\* at once for an accumulator without windows; else _draw_plot raises for a
\* kind it does not know, and the drawing saves the image or raises.
DrawResult(kind, count, drawn) ==
    IF RenderResult(count, drawn) = "saved" /\ kind \notin SupportedPlotTypes
    THEN "raised"
    ELSE RenderResult(count, drawn)

\* The artifacts the accumulator in hand was made from.
FilesInHand ==
    IF mpc = "Render" THEN CurrentSeedGroup.file_list
    ELSE <<npz_files[npzIdx]>>

Attempt(drawn) ==
    [seed_id |-> IF mpc = "Render" THEN CurrentSeedGroup.seed_id
                 ELSE disk[npz_files[npzIdx]].seed,
     files |-> FilesInHand,
     kind |-> plot_types[typeIdx + 1],
     count |-> merged_ppsd,
     result |-> DrawResult(plot_types[typeIdx + 1], merged_ppsd, drawn)]

\* Fault variant of RenderKind: a plot kind that raised ends the loop over
\* the plot kinds.
RenderKindAborts ==
    /\ mpc \in {"Render", "RenderFile"}
    /\ typeIdx < Len(plot_types)
    /\ \E drawn \in BOOLEAN :
          /\ rendered' = Append(rendered, Attempt(drawn))
          /\ typeIdx' = IF Attempt(drawn).result = "raised"
                        THEN Len(plot_types) ELSE typeIdx + 1
    /\ UNCHANGED <<mpc, npz_files, seed_groups, seedIdx, sorted_files, foldIdx,
                   merged_ppsd, folds, mergeLog, npzIdx>>
    /\ UNCHANGED batchFrame

\* One pass of the loop over plot_types, in either procedure: the plot is
\* attempted, a failure is logged, continue.
RenderKind ==
    /\ mpc \in {"Render", "RenderFile"}
    /\ typeIdx < Len(plot_types)
    /\ \E drawn \in BOOLEAN :
          rendered' = Append(rendered, Attempt(drawn))
    /\ typeIdx' = typeIdx + 1
    /\ UNCHANGED <<mpc, npz_files, seed_groups, seedIdx, sorted_files, foldIdx,
                   merged_ppsd, folds, mergeLog, npzIdx>>
    /\ UNCHANGED batchFrame

\* The loop over plot_types is exhausted: next identity group, or next file.
KindsDone ==
    /\ mpc \in {"Render", "RenderFile"}
    /\ typeIdx = Len(plot_types)
    /\ typeIdx' = 0
    /\ IF mpc = "Render"
       THEN /\ seedIdx' = seedIdx + 1
            /\ mpc' = "Group"
            /\ UNCHANGED npzIdx
       ELSE /\ npzIdx' = npzIdx + 1
            /\ mpc' = "Files"
            /\ UNCHANGED seedIdx
    /\ UNCHANGED <<npz_files, seed_groups, sorted_files, foldIdx, merged_ppsd,
                   folds, mergeLog, rendered>>
    /\ UNCHANGED batchFrame

\* The file loop is exhausted: _plot_individual_npz_files returns.
PlotIndividualDone ==
    /\ mpc = "Files"
    /\ npzIdx > Len(npz_files)
    /\ mpc' = "Done"
    /\ UNCHANGED <<npz_files, seed_groups, seedIdx, sorted_files, foldIdx,
                   merged_ppsd, folds, mergeLog, rendered, npzIdx, typeIdx>>
    /\ UNCHANGED batchFrame

\* The plotting procedure returned: plot_ppsd logs its completion.
BatchReturn ==
    /\ mpc = "Done"
    /\ PlotReturn

NextPlotBatch ==
    \/ PlotCheckInputDir
    \/ PlotMakeOutputDir
    \/ PlotReadInventory
    \/ PlotCheckFound
    \/ PlotDispatch
    \/ CallPlotMerged
    \/ StartPlotMerged
    \/ LoadBase
    \/ LoadBaseFails
    \/ Fold
    \/ FoldFails
    \/ ReturnMerged
    \/ PlotMergedDone
    \/ CallPlotIndividual
    \/ LoadSingle
    \/ LoadSingleFails
    \/ RenderKind
    \/ KindsDone
    \/ PlotIndividualDone
    \/ BatchReturn

SpecPlotBatch == InitPlotBatch /\ [][NextPlotBatch]_vars

\* ------------------------------------------ plot batch properties
InMerged == mpc \in {"Start", "Group", "Fold", "Render"}

InIndividual == mpc \in {"Files", "RenderFile"}

\* The finished merges of the identity seed.
MergesOf(seed) == {i \in 1..Len(mergeLog) : mergeLog[i].seed_id = seed}

\* C23: the strategy selects one of two procedures.  With
\* npz_merge_strategy false no merge is ever started (no grouping, no base
\* load, no fold) and every plot is made from the accumulator of one
\* artifact alone; otherwise every plot of a group is made after the one
\* merge of that group returned, from the accumulator of that merge, and
\* when the procedure is done every group, a singleton too, has been merged
\* exactly once.
C23_TwoMergeStrategies ==
    /\ ppc \in {"Merged", "Individual"} =>
          (ppc = "Merged" <=> plot_config.npz_merge_strategy)
    /\ InMerged => ppc = "Merged"
    /\ InIndividual => ppc = "Individual"
    /\ rendered # <<>> => ppc \in {"Merged", "Individual", "Done"}
    /\ ~plot_config.npz_merge_strategy =>
          /\ seed_groups = <<>>
          /\ sorted_files = <<>>
          /\ folds = <<>>
          /\ mergeLog = <<>>
          /\ \A j \in 1..Len(rendered) :
                /\ Len(rendered[j].files) = 1
                /\ rendered[j].count = disk[rendered[j].files[1]].count
    /\ plot_config.npz_merge_strategy =>
          /\ \A i \in 1..Len(seed_groups) :
                Cardinality(MergesOf(seed_groups[i].seed_id)) <= 1
          /\ \A j \in 1..Len(rendered) :
                \E i \in MergesOf(rendered[j].seed_id) :
                    /\ ~mergeLog[i].raised
                    /\ mergeLog[i].files = rendered[j].files
                    /\ mergeLog[i].final = rendered[j].count
          /\ mpc = "Done" =>
                \A i \in 1..Len(seed_groups) :
                    /\ Cardinality(MergesOf(seed_groups[i].seed_id)) = 1
                    /\ mergeLog[i].files = seed_groups[i].file_list

\* Merged mode is done: a group of one artifact was merged and an image of
\* it saved, before a group of two.
C23_Witness ==
    /\ plot_config.npz_merge_strategy
    /\ ppc = "Done"
    /\ Len(mergeLog) = 2
    /\ Len(mergeLog[1].files) = 1
    /\ Len(mergeLog[2].files) = 2
    /\ \E j \in 1..Len(rendered) :
          /\ rendered[j].files = mergeLog[1].files
          /\ rendered[j].result = "saved"

\* The accumulators that reached the plot-kind loop, once it is over: the
\* files each was made from.
UnitsRendered ==
    IF plot_config.npz_merge_strategy
    THEN {mergeLog[i].files : i \in {k \in 1..Len(mergeLog) : ~mergeLog[k].raised}}
    ELSE {<<npz_files[i]>> : i \in {k \in 1..Len(npz_files) :
                                       ~LoadRaises(disk, npz_files[k])}}

\* The plot kinds attempted for the accumulator made from fs, in order.
RECURSIVE KindsAttempted(_, _)
KindsAttempted(fs, r) ==
    IF r = <<>> THEN <<>>
    ELSE (IF Head(r).files = fs THEN <<Head(r).kind>> ELSE <<>>)
         \o KindsAttempted(fs, Tail(r))

\* C24: when plot_ppsd has returned, every plot kind configured has been
\* attempted, in order, for every accumulator that was obtained (each group
\* whose merge returned, each artifact that loaded), whatever the attempts
\* before it did: a drawing that raised, an unsupported kind included, ended
\* neither the loop over the kinds nor the loop over the groups or files.
C24_RenderFailureDoesNotAbort ==
    /\ ppc = "Done" =>
          \A fs \in UnitsRendered : KindsAttempted(fs, rendered) = plot_types
    /\ \A j \in 1..Len(rendered) :
          (rendered[j].kind \notin SupportedPlotTypes /\ rendered[j].count > 0)
              => rendered[j].result = "raised"
    /\ rendered # <<>> => (ppc # "Raised" /\ plot_raisedBy = "none")

AttemptsOf(fs) == {j \in 1..Len(rendered) : rendered[j].files = fs}

\* plot_ppsd returned in merged mode: in the first of two groups the first
\* kind raised in the drawing and the second for being unsupported, the
\* third was saved, and an image of the second group was saved too.
C24_Witness ==
    /\ plot_config.npz_merge_strategy
    /\ ppc = "Done"
    /\ Len(rendered) = 6
    /\ rendered[1].result = "raised"
    /\ rendered[2].result = "raised"
    /\ rendered[2].kind = "heatmap"
    /\ rendered[3].result = "saved"
    /\ rendered[4].files # rendered[1].files
    /\ rendered[6].result = "saved"

\* C25: a merge whose base loaded returns, also when the windows of its
\* artifacts sum to zero; every plot kind is then still handed the empty
\* accumulator and each returns without an image.  In both procedures an
\* image is attempted exactly for an accumulator holding windows, so none is
\* saved from an empty one.
C25_EmptyAccumulatorNeverRendered ==
    /\ \A i \in 1..Len(mergeLog) :
          /\ ~LoadRaises(disk, mergeLog[i].base) => ~mergeLog[i].raised
          /\ ~mergeLog[i].raised => mergeLog[i].final >= 0
    /\ \A j \in 1..Len(rendered) :
          /\ rendered[j].result = "skipped" <=> rendered[j].count = 0
          /\ rendered[j].result = "saved" => rendered[j].count > 0
          /\ rendered[j].count =
                IF plot_config.npz_merge_strategy
                THEN SumCounts(disk,
                        {f \in Range(rendered[j].files) : ~disk[f].corrupt})
                ELSE disk[rendered[j].files[1]].count
    /\ ppc = "Done" =>
          \A i \in 1..Len(mergeLog) :
              (~mergeLog[i].raised /\ mergeLog[i].final = 0) =>
                  /\ Cardinality(AttemptsOf(mergeLog[i].files)) = Len(plot_types)
                  /\ \A j \in AttemptsOf(mergeLog[i].files) :
                        rendered[j].result = "skipped"

\* plot_ppsd returned in merged mode: the merge of two artifacts without
\* windows returned an empty accumulator, each of three plot kinds was
\* skipped for it, and an image of a later group was saved.
C25_Witness ==
    /\ plot_config.npz_merge_strategy
    /\ ppc = "Done"
    /\ Len(mergeLog) = 2
    /\ Len(mergeLog[1].files) = 2
    /\ Len(mergeLog[1].folds) = 1
    /\ mergeLog[1].folds[1].ok
    /\ mergeLog[1].final = 0
    /\ Len(rendered) = 6
    /\ \A j \in 1..3 : rendered[j].result = "skipped"
    /\ rendered[4].result = "saved"

\* -------------------------------------------------- PPSDProcessor.run
\* Most configuration files given on the command line.
MaxConfigs == 3

\* str.endswith on a path held as the sequence of its pieces.
EndsWith(path, suffix) ==
    /\ Len(path) >= Len(suffix)
    /\ SubSeq(path, Len(path) - Len(suffix) + 1, Len(path)) = suffix

\* Loaded configurations: the path each was read from, its top-level keys
\* and the keys of its args table.
RunConfigs ==
    { [file_path |-> <<"config", ".toml">>,
       keys |-> {"mseed_pattern", "inventory_path"}, args |-> {}],
      [file_path |-> <<"config", "_plot", ".toml">>,
       keys |-> {"input_npz_dir"}, args |-> {"plot_type"}],
      [file_path |-> <<"station", "_calc", ".toml">>,
       keys |-> {}, args |-> {}],
      [file_path |-> <<"settings", ".toml">>,
       keys |-> {}, args |-> {"plot_type"}],
      [file_path |-> <<"settings", ".toml">>,
       keys |-> {}, args |-> {}],
      [file_path |-> <<"plot_", "config", ".toml">>,
       keys |-> {"input_npz_dir"}, args |-> {}] }

\* Fault variant of IsCalculationConfig: every configuration is computed.
IsCalculationConfigAny(c) == TRUE

\* _is_calculation_config
IsCalculationConfig(c) ==
    \/ EndsWith(c.file_path, <<"_calc", ".toml">>)
    \/ EndsWith(c.file_path, <<"config", ".toml">>)
    \/ "mseed_pattern" \in c.keys

\* _is_plot_config
IsPlotConfig(c) ==
    \/ EndsWith(c.file_path, <<"_plot", ".toml">>)
    \/ "input_npz_dir" \in c.keys
    \/ "plot_type" \in c.args

\* [c for c in self.configs if ...]: the positions kept, in order.
RECURSIVE Positions(_, _)
Positions(cs, i) ==
    IF i > Len(cs) THEN <<>>
    ELSE (IF cs[i] THEN <<i>> ELSE <<>>) \o Positions(cs, i + 1)

calc_configs ==
    Positions([i \in 1..Len(configs) |-> IsCalculationConfig(configs[i])], 1)

plot_configs ==
    Positions([i \in 1..Len(configs) |-> IsPlotConfig(configs[i])], 1)

\* What a call can do: calculate_ppsd raises for a configuration without
\* mseed_pattern or inventory_path and plot_ppsd for one without
\* input_npz_dir; either may raise for its other structural failures, or
\* return.
CallOutcomes(call, c) ==
    IF call = "calculate_ppsd"
    THEN IF {"mseed_pattern", "inventory_path"} \subseteq c.keys
         THEN {"returned", "raised"} ELSE {"raised"}
    ELSE IF "input_npz_dir" \in c.keys
         THEN {"returned", "raised"} ELSE {"raised"}

InitRun ==
    /\ ComputeIdle
    /\ MergeIdle
    /\ ExtraIdle
    /\ rpc = "Start"
    /\ configs \in SeqsOf(RunConfigs, 1, MaxConfigs)
    /\ runIdx = 0
    /\ run_log = <<>>

notRun == <<cvars, mvars, pvars, gvars, evars, svars, nvars, tvars, kvars>>

\* The configurations are separated into calc_configs and plot_configs.
RunSeparate ==
    /\ rpc = "Start"
    /\ rpc' = "Calc"
    /\ runIdx' = 1
    /\ UNCHANGED <<configs, run_log>>
    /\ UNCHANGED notRun

\* One pass of a loop of run over the list cs: the call is made; when it
\* raises, the handler logs and re-raises if the list holds one
\* configuration, and the loop continues otherwise.
RunCall(here, call, cs) ==
    /\ rpc = here
    /\ runIdx <= Len(cs)
    /\ \E outcome \in CallOutcomes(call, configs[cs[runIdx]]) :
          /\ run_log' = Append(run_log, [call |-> call, config |-> cs[runIdx],
                                         outcome |-> outcome])
          /\ IF outcome = "raised" /\ Len(cs) = 1
             THEN rpc' = "Raised" /\ UNCHANGED runIdx
             ELSE runIdx' = runIdx + 1 /\ UNCHANGED rpc
    /\ UNCHANGED configs
    /\ UNCHANGED notRun

\* Fault variant of RunCalculate: a failure is re-raised whatever the number
\* of compute configurations.
RunCalculateAlwaysRaises ==
    /\ rpc = "Calc"
    /\ runIdx <= Len(calc_configs)
    /\ \E outcome \in CallOutcomes("calculate_ppsd", configs[calc_configs[runIdx]]) :
          /\ run_log' = Append(run_log,
                [call |-> "calculate_ppsd", config |-> calc_configs[runIdx],
                 outcome |-> outcome])
          /\ IF outcome = "raised"
             THEN rpc' = "Raised" /\ UNCHANGED runIdx
             ELSE runIdx' = runIdx + 1 /\ UNCHANGED rpc
    /\ UNCHANGED configs
    /\ UNCHANGED notRun

\* for config in calc_configs: self.calculate_ppsd(config)
RunCalculate == RunCall("Calc", "calculate_ppsd", calc_configs)

\* The compute loop is exhausted: the plot loop starts.
RunCalculateDone ==
    /\ rpc = "Calc"
    /\ runIdx > Len(calc_configs)
    /\ rpc' = "Plot"
    /\ runIdx' = 1
    /\ UNCHANGED <<configs, run_log>>
    /\ UNCHANGED notRun

\* for config in plot_configs: self.plot_ppsd(config)
RunPlot == RunCall("Plot", "plot_ppsd", plot_configs)

\* The plot loop is exhausted: run returns.
RunDone ==
    /\ rpc = "Plot"
    /\ runIdx > Len(plot_configs)
    /\ rpc' = "Done"
    /\ UNCHANGED <<configs, runIdx, run_log>>
    /\ UNCHANGED notRun

NextRun ==
    \/ RunSeparate
    \/ RunCalculate
    \/ RunCalculateDone
    \/ RunPlot
    \/ RunDone

SpecRun == InitRun /\ [][NextRun]_vars

\* ---------------------------------------------------- run properties
\* The configurations the calls of one kind were made on, in order.
RECURSIVE CallsOf(_, _)
CallsOf(call, ls) ==
    IF ls = <<>> THEN <<>>
    ELSE (IF Head(ls).call = call THEN <<Head(ls).config>> ELSE <<>>)
         \o CallsOf(call, Tail(ls))

KindOf(call) == IF call = "calculate_ppsd" THEN calc_configs ELSE plot_configs

\* A call that raised on the only configuration of its kind.
Propagates(e) == e.outcome = "raised" /\ Len(KindOf(e.call)) = 1

\* C26: run raises exactly when a call raised on the only configuration of
\* its kind, and it raises at that call: nothing is called after it (after
\* an only compute configuration failed, no plot).  A call that raised on
\* one of several configurations of its kind stops nothing: when run
\* returns, every compute configuration and then every plot configuration
\* has been called, in order.
C26_FailureStopsOneUnit ==
    /\ rpc = "Raised" <=> \E i \in 1..Len(run_log) : Propagates(run_log[i])
    /\ \A i \in 1..Len(run_log) :
          Propagates(run_log[i]) =>
              /\ i = Len(run_log)
              /\ run_log[i].call = "calculate_ppsd" =>
                    CallsOf("plot_ppsd", run_log) = <<>>
    /\ rpc = "Done" =>
          /\ CallsOf("calculate_ppsd", run_log) = calc_configs
          /\ CallsOf("plot_ppsd", run_log) = plot_configs
    /\ rpc = "Plot" => CallsOf("calculate_ppsd", run_log) = calc_configs

\* run returned: the first of two compute configurations raised, the second
\* was computed and the plot configuration was plotted.
C26_Witness ==
    /\ rpc = "Done"
    /\ Len(run_log) = 3
    /\ run_log[1] = [call |-> "calculate_ppsd", config |-> 1, outcome |-> "raised"]
    /\ run_log[2] = [call |-> "calculate_ppsd", config |-> 2, outcome |-> "returned"]
    /\ run_log[3] = [call |-> "plot_ppsd", config |-> 3, outcome |-> "returned"]

\* C27: whatever the order of the configurations, no calculate_ppsd call
\* follows a plot_ppsd call, and when the first plot_ppsd call is made every
\* compute configuration has been called; a configuration that is neither
\* kind is never called.
C27_ComputeBeforePlot ==
    /\ \A i, j \in 1..Len(run_log) :
          (run_log[i].call = "plot_ppsd" /\ run_log[j].call = "calculate_ppsd")
              => j < i
    /\ CallsOf("plot_ppsd", run_log) # <<>> =>
          CallsOf("calculate_ppsd", run_log) = calc_configs
    /\ \A i \in 1..Len(run_log) :
          IF run_log[i].call = "calculate_ppsd"
          THEN IsCalculationConfig(configs[run_log[i].config])
          ELSE IsPlotConfig(configs[run_log[i].config])
    /\ \A k \in 1..Len(configs) :
          (\/ ~IsCalculationConfig(configs[k]) /\ ~IsPlotConfig(configs[k])
           \/ configs[k] = [file_path |-> <<"settings", ".toml">>,
                            keys |-> {}, args |-> {}]) =>
              \A i \in 1..Len(run_log) : run_log[i].config # k

\* The plot configuration was given first, a configuration of neither kind
\* second and the compute configuration last: run returned after computing
\* the third and then plotting the first.
C27_Witness ==
    /\ rpc = "Done"
    /\ configs[1].file_path = <<"config", "_plot", ".toml">>
    /\ Len(configs) = 3
    /\ configs[2].args = {} /\ configs[2].file_path = <<"settings", ".toml">>
    /\ configs[3].file_path = <<"config", ".toml">>
    /\ run_log = << [call |-> "calculate_ppsd", config |-> 3, outcome |-> "returned"],
                    [call |-> "plot_ppsd", config |-> 1, outcome |-> "returned"] >>

\* ------------------------------------------- the counters of calculate_ppsd
\* A pass of the trace loop was made.
TraceAttempted == pc = "TraceLoop" /\ traceIdx' = traceIdx + 1

\* read() raised for the file in hand.
FileReadFailed ==
    /\ pc = "FileLoop"
    /\ pc' = "FileLoop"
    /\ Len(filesRead') = Len(filesRead) + 1

\* The channel-group block raised outside its inner handlers.
ChannelGroupFailed ==
    /\ pc = "GroupLoop"
    /\ pc' = "GroupLoop"
    /\ groupIdx' = groupIdx + 1

CountersMove(ds, df) ==
    /\ successful_files' = successful_files + ds
    /\ failed_files' = failed_files + df

CountersStep ==
    /\ TraceAttempted =>
          /\ IF last'.raised THEN CountersMove(0, 1) ELSE CountersMove(1, 0)
          /\ (last'.added /\ last'.n = 0) => CountersMove(1, 0)
    /\ FileReadFailed => CountersMove(0, 1)
    /\ ChannelGroupFailed => CountersMove(0, 1)
    /\ ~(TraceAttempted \/ FileReadFailed \/ ChannelGroupFailed) =>
          CountersMove(0, 0)

\* C29: every step of calculate_ppsd moves the counters as follows: a trace
\* handed to accumulation adds one to exactly one of successful and failed,
\* to failed exactly when its processing raised (a trace that yielded no
\* window adds one to successful); a file whose read raised and a channel
\* group that failed each add one to failed; no other step changes either
\* counter.  Both start at zero, so at Done their sum is the number of
\* traces attempted plus the number of file and channel-group failures.
\* The artifacts written never outnumber successful.
C29_CounterAccounting ==
    /\ [](Len(written) <= successful_files)
    /\ [][CountersStep]_vars

\* The batch is done: one trace yielded no window, one raised and one file
\* could not be read; one artifact was written from a third trace.
C29_Witness ==
    /\ pc = "Done"
    /\ Len(filesRead) = 2
    /\ successful_files = 2
    /\ failed_files = 2
    /\ Len(written) = 1
    /\ last.added /\ last.n = 0 /\ ~last.raised

\* ------------- calculate_ppsd from the discovery on, trace by step
InitSequential ==
    /\ MergeIdle
    /\ RunIdle
    /\ typeIdx = 0
    /\ pc = "Discover"
    /\ config \in [mseed_pattern : {TRUE}, inventory_path : {TRUE},
                   skip_on_gaps : BOOLEAN, merge_fill_value : {NoFill},
                   merge_method : {0}]
    /\ raisedBy = "none"
    /\ inventory = "loaded"
    /\ mseed_files = <<>>
    /\ merge_fill_value = config.merge_fill_value
    /\ fileIdx = 0
    /\ channel_groups = <<>>
    /\ groupIdx = 0
    /\ traces_to_process = <<>>
    /\ traceIdx = 0
    /\ successful_files = 0
    /\ failed_files = 0
    /\ written = <<>>
    /\ filesRead = <<>>
    /\ groupsEntered = 0
    /\ fed = <<>>
    /\ mergeCalls = <<>>
    /\ mergeFailed = FALSE
    /\ last = NoResult
    /\ tpc = "Idle"
    /\ trace_args = [special_handling |-> NoMode, sensitivity |-> TRUE,
                     chan |-> "BJ.DAX.00.BHZ"]
    /\ special_handling = NoMode
    /\ metadata = "none"
    /\ ppsd = <<>>
    /\ warned = FALSE
    /\ trace_raised = "none"
    /\ ppc = "Idle"
    /\ plot_config = <<>>
    /\ plot_inventory = "none"
    /\ plot_npz_files = Unbound
    /\ plot_raisedBy = "none"
    /\ gpc = "Idle"
    /\ archive = <<>>
    /\ group_files = <<>>
    /\ npzIdx = 0
    /\ id_groups = <<>>
    /\ resolved = <<>>
    /\ filename = <<>>
    /\ extracted = Unbound
    /\ file_stream = <<>>
    /\ streamIdx = 0
    /\ trace_groups = <<>>
    /\ gen_args = <<>>
    /\ generated = Unbound

\* The loops of calculate_ppsd, with each call of
\* _process_single_merged_trace_to_npz made step by step.
NextSequential ==
    \/ FindFiles
    \/ ResolveGapParams
    \/ ReadFileFails
    \/ ReadFile
    \/ ChannelGroupFails
    \/ KeepSegments
    \/ SingleTrace
    \/ MergeSegments
    \/ MergeFails
    \/ CallProcessSingle
    \/ ReadMode
    \/ PrepareMetadata
    \/ ConstructPPSD
    \/ AddTrace
    \/ SaveArtifact
    \/ CountTrace
    \/ EndGroup
    \/ EndFile
    \/ Finish

SpecSequential == InitSequential /\ [][NextSequential]_vars

\* A call of _process_single_merged_trace_to_npz is in progress.
InCall == tpc # "Idle"

\* A file is handed to read().
FileIsRead == Len(filesRead') = Len(filesRead) + 1

\* What holds in every state of the batch.
SequentialState ==
    /\ \A i, j \in 1..Len(mseed_files) : i < j => mseed_files[i] < mseed_files[j]
    /\ Len(filesRead) <= Len(mseed_files)
    /\ filesRead = SubSeq(mseed_files, 1, Len(filesRead))
    /\ InCall =>
          /\ pc = "TraceLoop"
          /\ filesRead # <<>>
          /\ filesRead[Len(filesRead)] = mseed_files[fileIdx]
          /\ traces_to_process[traceIdx].chan = channel_groups[groupIdx].id
    /\ \A i, j \in 1..Len(written) :
          i < j => written[i].file <= written[j].file
    /\ \A i \in 1..Len(written) :
          /\ written[i].file \in Range(filesRead)
          /\ written[i].n \in WindowCounts
    /\ tpc \in {"Construct", "Add"} => ppsd \in {<<>>} \cup
          {[special_handling |-> special_handling, metadata |-> metadata,
            n |-> 0]}
    /\ tpc = "Add" => ppsd.n = 0
    /\ tpc \in {"Save", "Saved", "Skipped"} => ppsd.n \in WindowCounts

\* What holds of every step of the batch.
SequentialStep ==
    /\ FileIsRead =>
          /\ ~InCall /\ ~InCall'
          /\ written' = written
          /\ \A i \in 1..Len(written) :
                written[i].file < filesRead'[Len(filesRead')]
          /\ \A i \in 1..Len(filesRead) :
                filesRead[i] < filesRead'[Len(filesRead')]
    /\ (InCall \/ InCall') => filesRead' = filesRead /\ fileIdx' = fileIdx
    /\ written' # written =>
          /\ Len(written') = Len(written) + 1
          /\ SubSeq(written', 1, Len(written)) = written
          /\ written'[Len(written')] =
                [file |-> filesRead[Len(filesRead)],
                 chan |-> traces_to_process[traceIdx].chan,
                 segs |-> traces_to_process[traceIdx].segs,
                 n |-> ppsd.n]

\* C28: the files are read in sorted path order, with no file skipped or
\* read twice; a construct, add or persist step is always for a trace of the
\* file read last, and a file is read only between calls, when every
\* artifact written so far comes from an earlier file.  Each call constructs
\* its own accumulator, empty when add is called, and the artifact it saves
\* holds the windows of its trace only.
C28_SequentialPerFile ==
    /\ []SequentialState
    /\ [][SequentialStep]_vars

\* The second of two files is being read after the first one left two
\* artifacts, each with the windows of its own trace.
C28_Witness ==
    /\ pc = "GroupLoop"
    /\ filesRead = <<1, 2>>
    /\ Len(written) = 2
    /\ written[1].file = 1 /\ written[2].file = 1
    /\ written[1].n = 1 /\ written[2].n = 1
    /\ ~InCall

\* ------------- the artifact names of a compute batch with a pattern
\* config['output_npz_filename_pattern']: the four identity placeholders and
\* the start time.
NpzPattern ==
    <<"PPSD_", "{network}", ".", "{station}", ".", "{location}", ".",
      "{channel}", "_", "{start_datetime}", ".npz">>

\* trace.stats.network, .station, .location, .channel of a channel identity.
StatsOf(chan) ==
    IF chan = "BJ.DAX.00.BHZ"
    THEN [network |-> "BJ", station |-> "DAX", location |-> "00", channel |-> "BHZ"]
    ELSE [network |-> "BJ", station |-> "DAX", location |-> "00", channel |-> "BHN"]

\* trace.stats.starttime of the traces met: two minutes of one hour, and two
\* seconds of each.
StartTimes ==
    [year : {2024}, month : {3}, day : {1}, hour : {0}, minute : {5, 6},
     second : {0, 30}]

\* trace.stats.endtime: the traces met are one hour long.
EndTimeOf(start) == [start EXCEPT !.hour = @ + 1]

\* The traces of one channel as the gap policy hands them to the trace loop
\* for one file: the independent segments under skip_on_gaps, one merged
\* trace otherwise.
TimedTraceLists(skip) ==
    {[i \in 1..Len(ss) |->
         [chan |-> c, segs |-> <<i>>, starttime |-> ss[i],
          endtime |-> EndTimeOf(ss[i])]] :
        c \in Channels, ss \in SeqsOf(StartTimes, 1, IF skip THEN 2 ELSE 1)}

InitNames ==
    /\ MergeIdle
    /\ RunIdle
    /\ typeIdx = 0
    /\ pc = "TraceLoop"
    /\ config \in [mseed_pattern : {TRUE}, inventory_path : {TRUE},
                   skip_on_gaps : BOOLEAN, merge_fill_value : {NoFill},
                   merge_method : {0}]
    /\ raisedBy = "none"
    /\ inventory = "loaded"
    /\ mseed_files = <<1, 2>>
    /\ merge_fill_value = NoFill
    /\ fileIdx = 1
    /\ traces_to_process \in TimedTraceLists(config.skip_on_gaps)
    /\ channel_groups = <<[id |-> traces_to_process[1].chan,
                           traces |-> traces_to_process]>>
    /\ groupIdx = 1
    /\ traceIdx = 1
    /\ successful_files = 0
    /\ failed_files = 0
    /\ written = <<>>
    /\ filesRead = <<1>>
    /\ groupsEntered = 1
    /\ fed = <<>>
    /\ mergeCalls = <<>>
    /\ mergeFailed = FALSE
    /\ last = NoResult
    /\ gen_args = <<>>
    /\ generated = Unbound
    /\ ppc = "Idle"
    /\ plot_config = <<>>
    /\ plot_inventory = "none"
    /\ plot_npz_files = Unbound
    /\ plot_raisedBy = "none"
    /\ gpc = "Idle"
    /\ archive = <<>>
    /\ group_files = <<>>
    /\ npzIdx = 0
    /\ id_groups = <<>>
    /\ resolved = <<>>
    /\ filename = <<>>
    /\ extracted = Unbound
    /\ file_stream = <<>>
    /\ streamIdx = 0
    /\ trace_groups = <<>>
    /\ tpc = "Idle"
    /\ trace_args = <<>>
    /\ special_handling = NoMode
    /\ metadata = "none"
    /\ ppsd = <<>>
    /\ warned = FALSE
    /\ trace_raised = "none"

namesFrame ==
    <<mvars, pvars, gvars, evars, svars, tvars, rvars, kvars>>

\* The arguments of the _generate_filename call made for a trace.
NpzNameArgs(tr) ==
    [pattern |-> NpzPattern, metadata |-> StatsOf(tr.chan),
     plot_type |-> NoPlotType,
     data_starttime |-> Bound(tr.starttime),
     data_endtime |-> Bound(tr.endtime),
     now |-> WallClock]

\* npz_path = os.path.join(output_dir, npz_filename)
JoinOutputDir(name) == <<"output_dir", "/">> \o name

\* One pass of the trace loop with a pattern configured: the name is
\* generated from the trace's identity and times; the artifact is saved
\* under it when windows were processed and the calls did not raise.
ProcessNamedTrace ==
    /\ pc = "TraceLoop"
    /\ traceIdx <= Len(traces_to_process)
    /\ \E outcome \in TraceOutcomes : \E n \in WindowCounts :
          LET tr == traces_to_process[traceIdx]
              r == ProcessSingle([chan |-> tr.chan, segs |-> tr.segs],
                                 mseed_files[fileIdx], outcome, n)
          IN  /\ last' = r
              /\ gen_args' = IF r.constructed THEN NpzNameArgs(tr) ELSE gen_args
              /\ generated' = IF r.added
                              THEN Bound(GenerateFilename(NpzNameArgs(tr)))
                              ELSE generated
              /\ written' =
                    IF r.saved
                    THEN Append(written,
                           [file |-> r.file, chan |-> tr.chan, segs |-> tr.segs,
                            n |-> r.n, starttime |-> tr.starttime,
                            path |-> JoinOutputDir(
                                        GenerateFilename(NpzNameArgs(tr)))])
                    ELSE written
              /\ successful_files' =
                    IF r.raised THEN successful_files ELSE successful_files + 1
              /\ failed_files' =
                    IF r.raised THEN failed_files + 1 ELSE failed_files
    /\ fed' = Append(fed, traces_to_process[traceIdx])
    /\ traceIdx' = traceIdx + 1
    /\ UNCHANGED <<pc, config, raisedBy, inventory, mseed_files,
                   merge_fill_value, fileIdx, channel_groups, groupIdx,
                   traces_to_process, filesRead, groupsEntered,
                   mergeCalls, mergeFailed>>
    /\ UNCHANGED namesFrame

\* The traces of the file are exhausted: the next file is read and the
\* traces of its channel are handed to the trace loop.
ReadNextFile ==
    /\ pc = "TraceLoop"
    /\ traceIdx > Len(traces_to_process)
    /\ fileIdx < Len(mseed_files)
    /\ fileIdx' = fileIdx + 1
    /\ filesRead' = Append(filesRead, mseed_files[fileIdx + 1])
    /\ \E traces \in TimedTraceLists(config.skip_on_gaps) :
          /\ traces_to_process' = traces
          /\ channel_groups' = <<[id |-> traces[1].chan, traces |-> traces]>>
    /\ traceIdx' = 1
    /\ fed' = <<>>
    /\ UNCHANGED <<pc, config, raisedBy, inventory, mseed_files,
                   merge_fill_value, groupIdx, successful_files, failed_files,
                   written, groupsEntered, mergeCalls, mergeFailed, last>>
    /\ UNCHANGED <<nvars, namesFrame>>

\* The traces of the last file are exhausted: the batch is done.
NamesDone ==
    /\ pc = "TraceLoop"
    /\ traceIdx > Len(traces_to_process)
    /\ fileIdx = Len(mseed_files)
    /\ pc' = "Done"
    /\ UNCHANGED <<config, raisedBy, inventory, mseed_files,
                   merge_fill_value, fileIdx, channel_groups, groupIdx,
                   traces_to_process, traceIdx, successful_files,
                   failed_files, written, filesRead, groupsEntered, fed,
                   mergeCalls, mergeFailed, last>>
    /\ UNCHANGED <<nvars, namesFrame>>

NextNames ==
    \/ ProcessNamedTrace
    \/ ReadNextFile
    \/ NamesDone

SpecNames == InitNames /\ [][NextNames]_vars

\* C30 as stated: with the pattern naming the four identity fields and
\* {start_datetime}, no two artifacts saved in one batch have the same path.
C30_PatternPathsDistinct ==
    \A i, j \in 1..Len(written) :
        i # j => written[i].path # written[j].path

\* What the names do tell apart: two artifacts of one batch share a path
\* exactly when they are of the same channel and their data start in the
\* same minute.
PathsShareChannelAndMinute ==
    \A i, j \in 1..Len(written) :
        written[i].path = written[j].path <=>
            /\ written[i].chan = written[j].chan
            /\ [written[i].starttime EXCEPT !.second = 0] =
                  [written[j].starttime EXCEPT !.second = 0]

====
